---------------------------- MODULE Spec2Model ----------------------------
(***************************************************************************)
(* Model of the venue enrichment and discovery engine of nc-music-venues.  *)
(*                                                                         *)
(*   scripts/venue-scraper.js            scrapeMissingInfo, scrapeVenueInfo*)
(*   netlify/functions/discover-venues.js  quick handler, quickScrapeVenue *)
(*   scripts/venue-discovery.js          discoverVenuesInCity              *)
(*   netlify/functions/update-venue-status.js, src/lib/venue-watcher.ts    *)
(*                                       updateVenueStatus                 *)
(*                                                                         *)
(* A page is abstracted to the facts the four extractors return on it; the *)
(* file system and the browser are the environment: every copy, write,     *)
(* launch, navigation and evaluation either succeeds or throws.            *)
(***************************************************************************)
EXTENDS Integers, Sequences, FiniteSets, TLC

VARIABLES
    disk,          \* rows of src/data/venues_master.csv
    backup,        \* rows of src/data/venues_backup.csv (<<>> while never written)
    writes,        \* writes of the main store by saveVenues that took effect, this run
    saveCalls,     \* saveVenues calls of this run
    discDisk,      \* rows of src/data/discovered_venues.csv
    discBackup,    \* rows of a sibling backup file of the discovered store
    op,            \* the operation in progress: idle, full, quick, discover
    pc,            \* its position
    venues,        \* the in-memory collection of the run
    loaded,        \* the collection as loadVenues returned it
    workset,       \* venuesNeedingInfo / limitedVenues, as indexes into venues
    idx,           \* position of the current venue in workset
    updatedCount,
    browser,       \* none, open, closed
    launches,      \* puppeteer.launch calls of this run that succeeded
    page,          \* number of open page contexts
    retries,
    attempts,      \* iterations of the retry loop started for the current venue
    threw,         \* the current iteration raised
    returning,     \* a return statement is pending while finally runs
    content,       \* the primary page loaded by this iteration: <<>> or <<page>>
    contactLinks,  \* contact pages still to visit: contactLinks.slice(0, 1)
    prim,          \* email, phone, capacity, genres of the primary page
    ret,           \* value returned by the enricher: <<>> is null, <<r>> an object
    secFetches,    \* secondary pages fetched for the current venue
    outcome,       \* how the operation ended; none until one is started
    discoveredVenues, \* discovery: the records loadDiscoveredVenues returned
    existingVenues,   \* discovery: the keys seen so far
    newVenues,     \* discovery: records found by this run
    city,          \* discovery: the city searched
    maxResults,    \* discovery: the cap on newVenues
    term,          \* discovery: index of the next search term
    call           \* the last curation request and what it met: <<>> or a record

vars == <<disk, backup, writes, saveCalls, discDisk, discBackup,
          op, pc, venues, loaded, workset, idx, updatedCount, browser,
          launches, page, retries, attempts, threw, returning, content,
          contactLinks, prim, ret,
          secFetches, outcome, discoveredVenues, existingVenues,
          newVenues, city, maxResults, term, call>>

storeVars == <<disk, backup, writes, saveCalls>>
discVars  == <<discDisk, discBackup>>
scrapeVars == <<retries, attempts, threw, returning, content, contactLinks,
               prim, ret, secFetches>>
discoverVars == <<discoveredVenues, existingVenues, newVenues, city, maxResults, term>>
envVars == <<discVars, discoverVars, call>>

-----------------------------------------------------------------------------
(* Bounds of the model *)

NumVenues == 2        \* records in the main store, every shape of record
NumTerms == 2         \* search terms a discovery run goes through
MaxLinks == 2         \* contact-like anchors on a primary page
BatchVenues == 6      \* records in the store that spans two batches
QuickVenues == 11     \* records in the store that exceeds the quick handler's cap

(* Program constants *)

maxRetries == 2
batchSize == 3
SaveEvery == 5
QuickCap == 10

-----------------------------------------------------------------------------
(* Values *)

NULL == "null"

\* JavaScript truthiness of a field or fact: null and '' are falsy, every
\* other string and every extracted capacity (>= 50) is truthy.
Truthy(v) == v \notin {NULL, ""}

Or(a, b) == IF Truthy(a) THEN a ELSE b

\* extractCapacity returns a number, written here num:<digits>; the store
\* holds decimal strings.
ToDecimal(v) ==
    CASE v = "num:300" -> "300"
      [] v = "num:120" -> "120"
      [] v = NULL -> ""
      [] OTHER -> v

Venue(n, w, e, p, c, g) ==
    [name |-> n, location |-> "Raleigh", website |-> w, contact_email |-> e,
     contact_phone |-> p, capacity |-> c, typical_genres |-> g]

VenueName(i) ==
    CASE i = 1 -> "The Blue Note" [] i = 2 -> "Cat's Cradle" [] i = 3 -> "Lincoln Theatre"
      [] i = 4 -> "The Pour House" [] i = 5 -> "Kings" [] i = 6 -> "Motorco"
      [] i = 7 -> "Local 506" [] i = 8 -> "The Cave" [] i = 9 -> "Slim's"
      [] i = 10 -> "The Ritz" [] i = 11 -> "Neptunes" [] i = 12 -> "Nightlight"
      [] OTHER -> "Venue"

Site == "http://venue.test"

\* A site that does not answer: every navigation to it ends in the timeout.
DownSite == "http://down.test"

\* Record shapes of the store: without a website, with all four target
\* fields empty, partly populated, fully populated.
VenueShapes(i) ==
    { Venue(VenueName(i), "", "", "", "", ""),
      Venue(VenueName(i), Site, "", "", "", ""),
      Venue(VenueName(i), Site, "old@venue.test", "", "", ""),
      Venue(VenueName(i), Site, "old@venue.test", "(919) 555-0100", "", ""),
      Venue(VenueName(i), Site, "", "", "450", "Jazz"),
      Venue(VenueName(i), Site, "old@venue.test", "(919) 555-0100", "450", "Jazz") }

RECURSIVE Stores(_)
Stores(n) ==
    IF n = 0 THEN { <<>> }
    ELSE { Append(s, v) : s \in Stores(n - 1), v \in VenueShapes(n) }

Facts(e, p, c, g) == [email |-> e, phone |-> p, capacity |-> c, genres |-> g]

NoFacts == Facts(NULL, NULL, NULL, NULL)

\* What the extractors return on the pages a site may serve.
PrimaryContents ==
    { NoFacts,
      Facts("booking@venue.test", NULL, NULL, NULL),
      Facts(NULL, "(919) 555-0134", "num:300", NULL),
      Facts("booking@venue.test", "(919) 555-0134", "num:300", "Blues; Jazz") }

\* A primary page: its facts and the number of its anchors that match
\* /contact|booking|about|info/i.
PrimaryPages == [facts : PrimaryContents, links : 0..MaxLinks]

Min(a, b) == IF a < b THEN a ELSE b

SecondaryContents ==
    { NoFacts,
      Facts(NULL, "(919) 555-0199", NULL, NULL),
      Facts("info@venue.test", "(919) 555-0199", "num:120", "Rock") }

-----------------------------------------------------------------------------
(* Record Store: venues_master.csv and its rolling backup *)

\* csv-stringify: one row per record, every value as text.
stringifyRow(v) ==
    [name |-> v.name, location |-> v.location, website |-> v.website,
     contact_email |-> ToDecimal(v.contact_email),
     contact_phone |-> ToDecimal(v.contact_phone),
     capacity |-> ToDecimal(v.capacity),
     typical_genres |-> ToDecimal(v.typical_genres)]

stringify(vs) == [i \in 1..Len(vs) |-> stringifyRow(vs[i])]

\* What the file system does to one save: the copy to the backup file and
\* the write of the store each succeed or throw; a write that throws leaves
\* the store as it was (open failed) or truncated (open succeeded).
IOOutcomes == {"ok", "copy_throws", "write_throws", "write_torn"}

SaveOk(io) == io = "ok"

\* Faulty variant of saveVenues: the store is written first, the copy made after.
saveVenuesWriteFirst(vs, io) ==
    /\ disk' = CASE io = "ok" -> stringify(vs)
                 [] io = "write_torn" -> <<>>
                 [] OTHER -> disk
    /\ backup' = IF io = "copy_throws" THEN backup
                 ELSE IF io = "ok" THEN stringify(vs) ELSE disk
    /\ writes' = IF io \in {"ok", "write_torn"} THEN writes + 1 ELSE writes
    /\ saveCalls' = saveCalls + 1

\* saveVenues of scripts/venue-scraper.js: copyFileSync, then writeFileSync,
\* both inside one try whose catch only logs.
saveVenues(vs, io) ==
    /\ backup' = IF io = "copy_throws" THEN backup ELSE disk
    /\ disk' = CASE io = "ok" -> stringify(vs)
                 [] io = "write_torn" -> <<>>
                 [] OTHER -> disk
    /\ writes' = IF io \in {"ok", "write_torn"} THEN writes + 1 ELSE writes
    /\ saveCalls' = saveCalls + 1

\* saveVenues of netlify/functions/discover-venues.js: the same sequence
\* (the store exists whenever a run has loaded records from it); its catch
\* rethrows, which the caller sees as ~SaveOk(io).
quickSaveVenues(vs, io) ==
    /\ backup' = IF io = "copy_throws" THEN backup ELSE disk
    /\ disk' = CASE io = "ok" -> stringify(vs)
                 [] io = "write_torn" -> <<>>
                 [] OTHER -> disk
    /\ writes' = IF io \in {"ok", "write_torn"} THEN writes + 1 ELSE writes
    /\ saveCalls' = saveCalls + 1

\* loadVenues: the parsed rows, or [] when the file cannot be read.
loadVenues(readOk) == IF readOk THEN disk ELSE <<>>

-----------------------------------------------------------------------------
(* Venue Enricher: the pure parts of scrapeVenueInfo *)

AllPopulated(v) ==
    /\ Truthy(v.contact_email) /\ Truthy(v.contact_phone)
    /\ Truthy(v.capacity) /\ Truthy(v.typical_genres)

AnyFact(r) ==
    Truthy(r.email) \/ Truthy(r.phone) \/ Truthy(r.capacity) \/ Truthy(r.genres)

\* Faulty variant of PrimaryExtract: every extractor runs, whatever the record holds.
PrimaryExtractUnguarded(v, c) ==
    [email |-> c.email, phone |-> c.phone,
     capacity |-> c.capacity, genres |-> c.genres]

\* Each extractor runs on the primary page only for a field the record lacks.
PrimaryExtract(v, c) ==
    [email    |-> IF ~Truthy(v.contact_email) THEN c.email ELSE NULL,
     phone    |-> IF ~Truthy(v.contact_phone) THEN c.phone ELSE NULL,
     capacity |-> IF ~Truthy(v.capacity) THEN c.capacity ELSE NULL,
     genres   |-> IF ~Truthy(v.typical_genres) THEN c.genres ELSE NULL]

\* Faulty variant of ContactExtract: the record is not consulted.
ContactExtractUnguarded(v, p, c) ==
    [email    |-> IF ~Truthy(p.email) THEN c.email ELSE NULL,
     phone    |-> IF ~Truthy(p.phone) THEN c.phone ELSE NULL,
     capacity |-> IF ~Truthy(p.capacity) THEN c.capacity ELSE NULL,
     genres   |-> IF ~Truthy(p.genres) THEN c.genres ELSE NULL]

\* On the contact page: only for a field neither found nor on the record.
ContactExtract(v, p, c) ==
    [email    |-> IF ~Truthy(p.email) /\ ~Truthy(v.contact_email) THEN c.email ELSE NULL,
     phone    |-> IF ~Truthy(p.phone) /\ ~Truthy(v.contact_phone) THEN c.phone ELSE NULL,
     capacity |-> IF ~Truthy(p.capacity) /\ ~Truthy(v.capacity) THEN c.capacity ELSE NULL,
     genres   |-> IF ~Truthy(p.genres) /\ ~Truthy(v.typical_genres) THEN c.genres ELSE NULL]

\* email: email || contactEmail, ...
MergeFacts(p, s) ==
    [email |-> Or(p.email, s.email), phone |-> Or(p.phone, s.phone),
     capacity |-> Or(p.capacity, s.capacity), genres |-> Or(p.genres, s.genres)]

\* Lines 651-656: what the primary page gave, or null.
FallThrough(p) == IF AnyFact(p) THEN <<p>> ELSE <<>>

-----------------------------------------------------------------------------
(* Batch Orchestrator: the pure parts of scrapeMissingInfo *)

\* Faulty variant of NeedsInfo: the website is not required.
NeedsInfoAnyRecord(v) == ~AllPopulated(v)

NeedsInfo(v) == Truthy(v.website) /\ ~AllPopulated(v)

\* Array.prototype.filter, as the ascending indexes of the records kept.
RECURSIVE FilterIdx(_, _, _)
FilterIdx(vs, i, keep) ==
    IF i > Len(vs) THEN <<>>
    ELSE (IF i \in keep THEN <<i>> ELSE <<>>) \o FilterIdx(vs, i + 1, keep)

venuesNeedingInfo(vs) ==
    FilterIdx(vs, 1, { i \in 1..Len(vs) : NeedsInfo(vs[i]) })

\* Faulty variant of ApplyResult: the result is assigned without the guards.
ApplyResultOverwrite(v, r) ==
    [v EXCEPT !.contact_email = r.email, !.contact_phone = r.phone,
              !.capacity = r.capacity, !.typical_genres = r.genres]

\* The four guarded assignments of the orchestrator.
ApplyResult(v, r) ==
    [v EXCEPT
       !.contact_email  = IF Truthy(r.email) /\ ~Truthy(@) THEN r.email ELSE @,
       !.contact_phone  = IF Truthy(r.phone) /\ ~Truthy(@) THEN r.phone ELSE @,
       !.capacity       = IF Truthy(r.capacity) /\ ~Truthy(@) THEN r.capacity ELSE @,
       !.typical_genres = IF Truthy(r.genres) /\ ~Truthy(@) THEN r.genres ELSE @]

Updated(v, r) ==
    \/ Truthy(r.email) /\ ~Truthy(v.contact_email)
    \/ Truthy(r.phone) /\ ~Truthy(v.contact_phone)
    \/ Truthy(r.capacity) /\ ~Truthy(v.capacity)
    \/ Truthy(r.genres) /\ ~Truthy(v.typical_genres)

current == venues[workset[idx]]

-----------------------------------------------------------------------------
(* Discovered-venue records and identity pairs *)

Discovered(n, l, st) == [name |-> n, location |-> l, status |-> st]

\* String.prototype.toLowerCase on the names and cities of the model.
toLowerCase(str) ==
    CASE str = "Blue Note" -> "blue note"
      [] str = "BLUE NOTE" -> "blue note"
      [] str = "Pinhook" -> "pinhook"
      [] str = "Motorco" -> "motorco"
      [] str = "The Blue Note" -> "the blue note"
      [] str = "Cat's Cradle" -> "cat's cradle"
      [] str = "Lincoln Theatre" -> "lincoln theatre"
      [] str = "The Pour House" -> "the pour house"
      [] str = "Kings" -> "kings"
      [] str = "Venue" -> "venue"
      [] str = "Durham" -> "durham"
      [] str = "Raleigh" -> "raleigh"
      [] OTHER -> str

\* A record read from a file whose header has the name and location columns.
HasIdentity(v) == {"name", "location"} \subseteq DOMAIN v

\* venue.name.toLowerCase() + venue.location.toLowerCase()
Key(v) == toLowerCase(v.name) \o toLowerCase(v.location)

\* The identity pair of a record.
Pair(v) == <<toLowerCase(v.name), toLowerCase(v.location)>>

Cities == {"Durham"}

Statuses == {"pending", "approved", "rejected"}

DiscRecords ==
    { Discovered(n, c, st) :
        n \in {"Blue Note", "BLUE NOTE", "Pinhook"}, c \in Cities, st \in Statuses }

\* Files whose header lacks the name column, or the location column.
MalformedStores ==
    { << [location |-> "Durham", status |-> "pending"] >>,
      << [name |-> "Pinhook", status |-> "pending"],
         [name |-> "Blue Note", status |-> "pending"] >> }

\* The discovered stores: records with pairwise distinct identity pairs.
DiscStores ==
    { <<>> } \cup { <<r>> : r \in DiscRecords }
      \cup { <<rq[1], rq[2]>> :
               rq \in { x \in DiscRecords \X DiscRecords : Pair(x[1]) # Pair(x[2]) } }
      \cup MalformedStores

\* A main store with nothing left to enrich, one record of which shares its
\* name, not its city, with a discovered venue.
CurationStore ==
    << Venue("Pinhook", Site, "old@venue.test", "(919) 555-0100", "450", "Jazz"),
       Venue("Cat's Cradle", Site, "old@venue.test", "(919) 555-0100", "450", "Jazz") >>

-----------------------------------------------------------------------------
(* Initial state: a store on disk, nothing running *)

NoRun ==
    /\ venues = <<>> /\ loaded = <<>> /\ workset = <<>> /\ idx = 0
    /\ updatedCount = 0 /\ browser = "none" /\ launches = 0 /\ page = 0
    /\ retries = 0 /\ attempts = 0 /\ threw = FALSE /\ returning = FALSE
    /\ content = <<>> /\ contactLinks = 0
    /\ prim = NoFacts /\ ret = <<>> /\ secFetches = 0
    /\ discoveredVenues = <<>> /\ existingVenues = {} /\ newVenues = <<>>
    /\ city = "" /\ maxResults = 0 /\ term = 0
    /\ writes = 0 /\ saveCalls = 0

\* The locals of the enricher before a call and after it has returned.
ResetScrape ==
    /\ retries' = 0 /\ attempts' = 0 /\ threw' = FALSE /\ returning' = FALSE
    /\ content' = <<>> /\ contactLinks' = 0
    /\ prim' = NoFacts /\ ret' = <<>> /\ secFetches' = 0

ResetRun ==
    /\ venues' = <<>> /\ loaded' = <<>> /\ workset' = <<>> /\ idx' = 0
    /\ updatedCount' = 0 /\ browser' = "none" /\ launches' = 0 /\ page' = 0
    /\ ResetScrape
    /\ discoveredVenues' = <<>> /\ existingVenues' = {} /\ newVenues' = <<>>
    /\ city' = "" /\ maxResults' = 0 /\ term' = 0
    /\ writes' = 0 /\ saveCalls' = 0

\* A larger store whose records all lack only the email.
BatchStore(n) ==
    [i \in 1..n |-> Venue(VenueName(i), Site, "", "(919) 555-0100", "450", "Jazz")]

\* A store with more records that lack email and phone than the quick
\* handler takes; only the first and the last are on a site that answers.
QuickStore(n) ==
    [i \in 1..n |-> Venue(VenueName(i), IF i \in {1, n} THEN Site ELSE DownSite,
                          "", "", "450", "Jazz")]

\* One operation is observed, on any of these stores.
Init ==
    /\ \/ disk \in Stores(1) \cup Stores(NumVenues) /\ discDisk = <<>>
       \/ disk = BatchStore(BatchVenues) /\ discDisk = <<>>
       \/ disk = QuickStore(QuickVenues) /\ discDisk = <<>>
       \/ disk = CurationStore /\ discDisk \in DiscStores
    /\ backup = <<>>
    /\ discBackup = <<>>
    /\ op = "idle" /\ pc = "idle" /\ outcome = "none"
    /\ call = <<>>
    /\ NoRun

-----------------------------------------------------------------------------
(* scrapeVenueInfo(venue, browser), one step per await *)

\* The callers of scrapeVenueInfo: the full run, and a call of the function
\* alone on any record with an engine the caller holds.
EnricherOps == {"full", "enrich"}

\* Faulty variant of ScrapeVenueInfo: a fully populated record is not skipped.
ScrapeVenueInfoNoSkip ==
    /\ op \in EnricherOps /\ pc = "scrape"
    /\ retries' = 0 /\ attempts' = 0 /\ secFetches' = 0
    /\ threw' = FALSE /\ prim' = NoFacts /\ ret' = <<>>
    /\ content' = <<>> /\ contactLinks' = 0
    /\ IF ~Truthy(current.website)
       THEN returning' = TRUE /\ pc' = "apply"
       ELSE returning' = FALSE /\ pc' = "newPage"
    /\ UNCHANGED <<storeVars, envVars, op, venues, loaded, workset,
                   idx, updatedCount, browser, launches, page, outcome>>

\* Lines 555-565: the two skip conditions, then the retry loop is entered.
ScrapeVenueInfo ==
    /\ op \in EnricherOps /\ pc = "scrape"
    /\ retries' = 0 /\ attempts' = 0 /\ secFetches' = 0
    /\ threw' = FALSE /\ prim' = NoFacts /\ ret' = <<>>
    /\ content' = <<>> /\ contactLinks' = 0
    /\ IF ~Truthy(current.website) \/ AllPopulated(current)
       THEN returning' = TRUE /\ pc' = "apply"
       ELSE returning' = FALSE /\ pc' = "newPage"
    /\ UNCHANGED <<storeVars, envVars, op, venues, loaded, workset,
                   idx, updatedCount, browser, launches, page, outcome>>

\* Lines 565-581 and 680: while (retries <= maxRetries) { try { newPage ...
NewPage ==
    /\ op \in EnricherOps /\ pc = "newPage"
    /\ IF retries <= maxRetries
       THEN /\ attempts' = attempts + 1
            /\ threw' = FALSE /\ prim' = NoFacts
            /\ content' = <<>> /\ contactLinks' = 0
            /\ \E ok \in BOOLEAN :
                 IF ok THEN page' = page + 1 /\ pc' = "goto"
                 ELSE page' = page /\ pc' = "catch"
            /\ UNCHANGED <<ret, returning>>
       ELSE /\ ret' = <<>> /\ returning' = TRUE /\ pc' = "apply"
            /\ UNCHANGED <<attempts, threw, prim, content, contactLinks, page>>
    /\ UNCHANGED <<storeVars, envVars, op, venues, loaded, workset,
                   idx, updatedCount, browser, launches, retries,
                   secFetches, outcome>>

\* Lines 583-608: navigation, the four extractors, the early return.
GotoPrimary ==
    /\ op \in EnricherOps /\ pc = "goto"
    /\ \/ /\ pc' = "catch"
          /\ UNCHANGED <<content, prim, ret, returning>>
       \/ \E pg \in PrimaryPages :
            LET found == PrimaryExtract(current, pg.facts) IN
            /\ current.website # DownSite
            /\ content' = <<pg>>
            /\ prim' = found
            /\ IF AnyFact(found)
               THEN ret' = <<found>> /\ returning' = TRUE /\ pc' = "finally"
               ELSE UNCHANGED <<ret, returning>> /\ pc' = "links"
    /\ UNCHANGED <<storeVars, envVars, op, venues, loaded, workset,
                   idx, updatedCount, browser, launches, page, retries, attempts,
                   threw, contactLinks, secFetches, outcome>>

\* Lines 610-619 and 651-656: the contact-like links of the primary page.
ContactLinks ==
    /\ op \in EnricherOps /\ pc = "links"
    /\ ~Truthy(prim.email) \/ ~Truthy(prim.phone)
         \/ ~Truthy(prim.capacity) \/ ~Truthy(prim.genres)
    /\ \/ /\ pc' = "catch"
          /\ UNCHANGED <<contactLinks, ret, returning>>
       \/ /\ contactLinks' = Min(content[1].links, 1)
          /\ IF Min(content[1].links, 1) > 0
             THEN pc' = "gotoContact" /\ UNCHANGED <<ret, returning>>
             ELSE /\ ret' = FallThrough(prim) /\ returning' = TRUE
                  /\ pc' = "finally"
    /\ UNCHANGED <<storeVars, envVars, op, venues, loaded, workset,
                   idx, updatedCount, browser, launches, page, retries, attempts,
                   threw, content, prim, secFetches, outcome>>

\* Lines 619-656: one pass of for (const contactUrl of ...); errors of the
\* contact page are ignored.
GotoContact ==
    /\ op \in EnricherOps /\ pc = "gotoContact"
    /\ contactLinks > 0
    /\ secFetches' = secFetches + 1
    /\ contactLinks' = contactLinks - 1
    /\ \E found \in {NoFacts} \cup
                     { ContactExtract(current, prim, c) : c \in SecondaryContents } :
         IF AnyFact(found)
         THEN /\ ret' = <<MergeFacts(prim, found)>> /\ returning' = TRUE
              /\ pc' = "finally"
         ELSE IF contactLinks - 1 > 0
              THEN pc' = "gotoContact" /\ UNCHANGED <<ret, returning>>
              ELSE /\ ret' = FallThrough(prim) /\ returning' = TRUE
                   /\ pc' = "finally"
    /\ UNCHANGED <<storeVars, envVars, op, venues, loaded, workset,
                   idx, updatedCount, browser, launches, page, retries, attempts,
                   threw, content, prim, outcome>>

\* Faulty variant of Catch: the failed attempt is not counted.
CatchUncounted ==
    /\ op \in EnricherOps /\ pc = "catch"
    /\ retries' = retries
    /\ threw' = TRUE
    /\ IF retries > maxRetries
       THEN ret' = <<>> /\ returning' = TRUE
       ELSE UNCHANGED ret /\ returning' = FALSE
    /\ pc' = "finally"
    /\ UNCHANGED <<storeVars, envVars, op, venues, loaded, workset,
                   idx, updatedCount, browser, launches, page, attempts, content,
                   contactLinks, prim, secFetches, outcome>>

\* Lines 658-667: retries++, return null when exhausted, else wait 1 s.
Catch ==
    /\ op \in EnricherOps /\ pc = "catch"
    /\ retries' = retries + 1
    /\ threw' = TRUE
    /\ IF retries + 1 > maxRetries
       THEN ret' = <<>> /\ returning' = TRUE
       ELSE UNCHANGED ret /\ returning' = FALSE
    /\ pc' = "finally"
    /\ UNCHANGED <<storeVars, envVars, op, venues, loaded, workset,
                   idx, updatedCount, browser, launches, page, attempts, content,
                   contactLinks, prim, secFetches, outcome>>

\* Faulty variant of Finally: the page is closed on the return paths only.
FinallyLeak ==
    /\ op \in EnricherOps /\ pc = "finally"
    /\ page' = IF returning THEN 0 ELSE page
    /\ pc' = IF returning THEN "apply" ELSE "newPage"
    /\ UNCHANGED <<storeVars, envVars, op, venues, loaded, workset,
                   idx, updatedCount, browser, launches, retries, attempts, threw,
                   returning, content, contactLinks, prim, ret, secFetches, outcome>>

\* Lines 668-677: if (page) { close; page = null }, then return or loop.
Finally ==
    /\ op \in EnricherOps /\ pc = "finally"
    /\ page' = 0
    /\ pc' = IF returning THEN "apply" ELSE "newPage"
    /\ UNCHANGED <<storeVars, envVars, op, venues, loaded, workset,
                   idx, updatedCount, browser, launches, retries, attempts, threw,
                   returning, content, contactLinks, prim, ret, secFetches, outcome>>

\* scrapeVenueInfo(venue, browser) called on one record, whatever its shape.
StartEnrich ==
    /\ op = "idle" /\ outcome = "none"
    /\ \E v \in VenueShapes(1) :
         /\ venues' = <<v>> /\ loaded' = <<v>>
    /\ workset' = <<1>> /\ idx' = 1
    /\ browser' = "open"
    /\ op' = "enrich" /\ pc' = "scrape" /\ outcome' = "running"
    /\ UNCHANGED <<storeVars, envVars, scrapeVars, updatedCount, launches, page>>

\* The value of the call is handed to the caller.
EnrichReturn ==
    /\ op = "enrich" /\ pc = "apply"
    /\ pc' = "done"
    /\ outcome' = IF ret = <<>> THEN "returned_null" ELSE "returned_facts"
    /\ UNCHANGED <<storeVars, envVars, scrapeVars, op, venues, loaded, workset,
                   idx, updatedCount, browser, launches, page>>

NextEnrich == StartEnrich \/ EnrichReturn

-----------------------------------------------------------------------------
(* scrapeMissingInfo() *)

\* Lines 684-693.
StartFull ==
    /\ op = "idle" /\ outcome = "none"
    /\ \E readOk \in BOOLEAN :
         LET vs == loadVenues(readOk) IN
         /\ venues' = vs /\ loaded' = vs
         /\ workset' = venuesNeedingInfo(vs)
         /\ IF venuesNeedingInfo(vs) = <<>>
            THEN pc' = "done" /\ outcome' = "nothing_to_do"
            ELSE pc' = "launch" /\ outcome' = "running"
    /\ op' = "full"
    /\ UNCHANGED <<storeVars, envVars, scrapeVars, idx,
                   updatedCount, browser, launches, page>>

\* Faulty variant of Launch: the loop is entered after a failed launch.
LaunchIgnoresFailure ==
    /\ op = "full" /\ pc = "launch"
    /\ \E ok \in BOOLEAN :
         IF ok
         THEN /\ browser' = "open" /\ launches' = launches + 1
              /\ idx' = 1 /\ pc' = "scrape" /\ UNCHANGED outcome
         ELSE /\ UNCHANGED <<browser, launches>>
              /\ idx' = 1 /\ pc' = "scrape" /\ outcome' = "launch_failed"
    /\ updatedCount' = 0
    /\ UNCHANGED <<storeVars, envVars, scrapeVars, op, venues,
                   loaded, workset, page>>

\* Lines 697-716 and 784-785: a failed launch is caught and logged.
Launch ==
    /\ op = "full" /\ pc = "launch"
    /\ \E ok \in BOOLEAN :
         IF ok
         THEN /\ browser' = "open" /\ launches' = launches + 1
              /\ idx' = 1 /\ pc' = "scrape" /\ UNCHANGED outcome
         ELSE /\ UNCHANGED <<browser, launches, idx>>
              /\ pc' = "closing" /\ outcome' = "launch_failed"
    /\ updatedCount' = 0
    /\ UNCHANGED <<storeVars, envVars, scrapeVars, op, venues,
                   loaded, workset, page>>

\* Faulty variant of Apply: a venue that gave nothing ends the loop.
ApplyStopsOnFailure ==
    /\ op = "full" /\ pc = "apply"
    /\ IF ret # <<>>
       THEN LET r == ret[1]
                updated == Updated(current, r)
                vs == [venues EXCEPT ![workset[idx]] = ApplyResult(@, r)]
                n == IF updated THEN updatedCount + 1 ELSE updatedCount
            IN /\ venues' = vs
               /\ updatedCount' = n
               /\ IF updated /\ n % SaveEvery = 0
                  THEN \E io \in IOOutcomes : saveVenues(vs, io)
                  ELSE UNCHANGED storeVars
       ELSE UNCHANGED <<venues, updatedCount, storeVars>>
    /\ pc' = IF ret = <<>> THEN "finish" ELSE "delay"
    /\ ResetScrape
    /\ UNCHANGED <<envVars, op, loaded, workset, idx,
                   browser, launches, page, outcome>>

\* Lines 729-762: apply the result, count, save on every fifth update.
Apply ==
    /\ op = "full" /\ pc = "apply"
    /\ IF ret # <<>>
       THEN LET r == ret[1]
                updated == Updated(current, r)
                vs == [venues EXCEPT ![workset[idx]] = ApplyResult(@, r)]
                n == IF updated THEN updatedCount + 1 ELSE updatedCount
            IN /\ venues' = vs
               /\ updatedCount' = n
               /\ IF updated /\ n % SaveEvery = 0
                  THEN \E io \in IOOutcomes : saveVenues(vs, io)
                  ELSE UNCHANGED storeVars
       ELSE UNCHANGED <<venues, updatedCount, storeVars>>
    /\ pc' = "delay"
    /\ ResetScrape
    /\ UNCHANGED <<envVars, op, loaded, workset, idx,
                   browser, launches, page, outcome>>

\* Faulty variant of Delay: the loop steps over a venue of the batch.
DelaySkipsOne ==
    /\ op = "full" /\ pc = "delay"
    /\ IF idx = Len(workset)
       THEN pc' = "finish" /\ UNCHANGED idx
       ELSE IF idx % batchSize = 0
            THEN pc' = "batchDelay" /\ UNCHANGED idx
            ELSE pc' = "scrape" /\ idx' = Min(idx + 2, Len(workset))
    /\ UNCHANGED <<storeVars, envVars, scrapeVars, op, venues,
                   loaded, workset, updatedCount, browser, launches, page, outcome>>

\* Lines 767-769: 500 ms after every venue; the batch ends after batchSize.
Delay ==
    /\ op = "full" /\ pc = "delay"
    /\ IF idx = Len(workset)
       THEN pc' = "finish" /\ UNCHANGED idx
       ELSE IF idx % batchSize = 0
            THEN pc' = "batchDelay" /\ UNCHANGED idx
            ELSE pc' = "scrape" /\ idx' = idx + 1
    /\ UNCHANGED <<storeVars, envVars, scrapeVars, op, venues,
                   loaded, workset, updatedCount, browser, launches, page, outcome>>

\* Lines 771-774: 5 s between batches.
BatchDelay ==
    /\ op = "full" /\ pc = "batchDelay"
    /\ idx' = idx + 1
    /\ pc' = "scrape"
    /\ UNCHANGED <<storeVars, envVars, scrapeVars, op, venues,
                   loaded, workset, updatedCount, browser, launches, page, outcome>>

\* Faulty variant of Finish: no save at run end when the last update was flushed.
FinishUnlessFlushed ==
    /\ op = "full" /\ pc = "finish"
    /\ IF updatedCount > 0 /\ updatedCount % SaveEvery # 0
       THEN \E io \in IOOutcomes : saveVenues(venues, io)
       ELSE UNCHANGED storeVars
    /\ outcome' = "completed"
    /\ pc' = "closing"
    /\ UNCHANGED <<envVars, scrapeVars, op, venues, loaded, workset,
                   idx, updatedCount, browser, launches, page>>

\* Faulty variant of Finish: the store is saved whether or not a venue was updated.
FinishAlwaysSaves ==
    /\ op = "full" /\ pc = "finish"
    /\ \E io \in IOOutcomes : saveVenues(venues, io)
    /\ outcome' = "completed"
    /\ pc' = "closing"
    /\ UNCHANGED <<envVars, scrapeVars, op, venues, loaded, workset,
                   idx, updatedCount, browser, launches, page>>

\* Lines 777-782: the save at run end.
Finish ==
    /\ op = "full" /\ pc = "finish"
    /\ IF updatedCount > 0
       THEN \E io \in IOOutcomes : saveVenues(venues, io)
       ELSE UNCHANGED storeVars
    /\ outcome' = "completed"
    /\ pc' = "closing"
    /\ UNCHANGED <<envVars, scrapeVars, op, venues, loaded, workset,
                   idx, updatedCount, browser, launches, page>>

\* Lines 786-788: finally { if (browser) await browser.close() }.
CloseBrowser ==
    /\ op = "full" /\ pc = "closing"
    /\ browser' = IF browser = "open" THEN "closed" ELSE browser
    /\ pc' = "done"
    /\ UNCHANGED <<storeVars, envVars, scrapeVars, op, venues,
                   loaded, workset, idx, updatedCount, launches, page, outcome>>

\* The promise of the run resolves; its locals are gone.
Return ==
    /\ op # "idle" /\ pc = "done"
    /\ op' = "idle" /\ pc' = "idle"
    /\ ResetRun
    /\ UNCHANGED <<disk, backup, discVars, call, outcome>>

-----------------------------------------------------------------------------
(* The quick handler of netlify/functions/discover-venues.js *)

QuickNeedsInfo(v) ==
    Truthy(v.website) /\ (~Truthy(v.contact_email) \/ ~Truthy(v.contact_phone))

\* Faulty variant of limitedVenues: every record that needs contact info.
limitedVenuesUncapped(vs) ==
    FilterIdx(vs, 1, { i \in 1..Len(vs) : QuickNeedsInfo(vs[i]) })

\* venuesNeedingInfo.slice(0, 10)
limitedVenues(vs) ==
    LET ws == FilterIdx(vs, 1, { i \in 1..Len(vs) : QuickNeedsInfo(vs[i]) })
    IN SubSeq(ws, 1, IF Len(ws) < QuickCap THEN Len(ws) ELSE QuickCap)

\* Lines 359-370: only the email and phone extractors run.
QuickExtract(v, c) ==
    [email    |-> IF ~Truthy(v.contact_email) THEN c.email ELSE NULL,
     phone    |-> IF ~Truthy(v.contact_phone) THEN c.phone ELSE NULL,
     capacity |-> NULL,
     genres   |-> NULL]

\* Lines 440-448: the two guarded assignments of the handler.
QuickApplyResult(v, r) ==
    [v EXCEPT
       !.contact_email = IF Truthy(r.email) /\ ~Truthy(@) THEN r.email ELSE @,
       !.contact_phone = IF Truthy(r.phone) /\ ~Truthy(@) THEN r.phone ELSE @]

QuickUpdated(v, r) ==
    \/ Truthy(r.email) /\ ~Truthy(v.contact_email)
    \/ Truthy(r.phone) /\ ~Truthy(v.contact_phone)

\* Lines 398-415.
StartQuick ==
    /\ op = "idle" /\ outcome = "none"
    /\ \E readOk \in BOOLEAN :
         LET vs == loadVenues(readOk) IN
         /\ venues' = vs /\ loaded' = vs
         /\ workset' = limitedVenues(vs)
         /\ IF limitedVenues(vs) = <<>>
            THEN pc' = "done" /\ outcome' = "nothing_to_do"
            ELSE pc' = "launch" /\ outcome' = "running"
    /\ op' = "quick"
    /\ UNCHANGED <<storeVars, envVars, scrapeVars, idx,
                   updatedCount, browser, launches, page>>

\* Lines 417-432: a failed launch leaves through finally to the outer catch.
QuickLaunch ==
    /\ op = "quick" /\ pc = "launch"
    /\ \E ok \in BOOLEAN :
         IF ok
         THEN /\ browser' = "open" /\ launches' = launches + 1
              /\ idx' = 1 /\ pc' = "scrape" /\ UNCHANGED outcome
         ELSE /\ UNCHANGED <<browser, launches, idx>>
              /\ pc' = "closing" /\ outcome' = "error_500"
    /\ updatedCount' = 0
    /\ UNCHANGED <<storeVars, envVars, scrapeVars, op, venues,
                   loaded, workset, page>>

\* Lines 326-332: the skip conditions of quickScrapeVenue.
QuickScrapeVenue ==
    /\ op = "quick" /\ pc = "scrape"
    /\ retries' = 0 /\ attempts' = 0 /\ secFetches' = 0
    /\ threw' = FALSE /\ prim' = NoFacts /\ ret' = <<>>
    /\ content' = <<>> /\ contactLinks' = 0
    /\ IF ~Truthy(current.website)
          \/ (Truthy(current.contact_email) /\ Truthy(current.contact_phone))
       THEN returning' = TRUE /\ pc' = "apply"
       ELSE returning' = FALSE /\ pc' = "newPage"
    /\ UNCHANGED <<storeVars, envVars, op, venues, loaded, workset,
                   idx, updatedCount, browser, launches, page, outcome>>

\* Lines 334-348 and 372-374: one attempt; an error returns null.
QuickNewPage ==
    /\ op = "quick" /\ pc = "newPage"
    /\ attempts' = attempts + 1
    /\ \E ok \in BOOLEAN :
         IF ok THEN /\ page' = page + 1 /\ pc' = "goto"
                    /\ UNCHANGED <<threw, returning>>
         ELSE /\ page' = page /\ pc' = "finally"
              /\ threw' = TRUE /\ returning' = TRUE
    /\ UNCHANGED <<storeVars, envVars, op, venues, loaded, workset,
                   idx, updatedCount, browser, launches, retries, content,
                   contactLinks, prim, ret, secFetches, outcome>>

\* Lines 350-374: navigation and the two extractors.
QuickGoto ==
    /\ op = "quick" /\ pc = "goto"
    /\ \/ /\ threw' = TRUE
          /\ UNCHANGED <<content, prim, ret>>
       \/ \E pg \in PrimaryPages :
            LET found == QuickExtract(current, pg.facts) IN
            /\ current.website # DownSite
            /\ content' = <<pg>>
            /\ prim' = found
            /\ ret' = IF Truthy(found.email) \/ Truthy(found.phone)
                      THEN <<found>> ELSE <<>>
            /\ UNCHANGED threw
    /\ returning' = TRUE
    /\ pc' = "finally"
    /\ UNCHANGED <<storeVars, envVars, op, venues, loaded, workset,
                   idx, updatedCount, browser, launches, page, retries, attempts,
                   contactLinks, secFetches, outcome>>

\* Lines 375-383: if (page) close.
QuickFinally ==
    /\ op = "quick" /\ pc = "finally"
    /\ page' = 0
    /\ pc' = "apply"
    /\ UNCHANGED <<storeVars, envVars, op, venues, loaded, workset,
                   idx, updatedCount, browser, launches, retries, attempts, threw,
                   returning, content, contactLinks, prim, ret, secFetches, outcome>>

\* Lines 436-456.
QuickApply ==
    /\ op = "quick" /\ pc = "apply"
    /\ IF ret # <<>>
       THEN /\ venues' = [venues EXCEPT ![workset[idx]] = QuickApplyResult(@, ret[1])]
            /\ updatedCount' = IF QuickUpdated(current, ret[1])
                               THEN updatedCount + 1 ELSE updatedCount
       ELSE UNCHANGED <<venues, updatedCount>>
    /\ pc' = "delay"
    /\ ResetScrape
    /\ UNCHANGED <<storeVars, envVars, op, loaded, workset, idx,
                   browser, launches, page, outcome>>

\* Lines 458-460.
QuickDelay ==
    /\ op = "quick" /\ pc = "delay"
    /\ IF idx = Len(workset)
       THEN pc' = "finish" /\ UNCHANGED idx
       ELSE pc' = "scrape" /\ idx' = idx + 1
    /\ UNCHANGED <<storeVars, envVars, scrapeVars, op, venues,
                   loaded, workset, updatedCount, browser, launches, page, outcome>>

\* Faulty variant of QuickFinish: the engine is closed after the try, not in a
\* finally, so a save that throws skips the close.
QuickFinishNoFinally ==
    /\ op = "quick" /\ pc = "finish"
    /\ IF updatedCount > 0
       THEN \E io \in IOOutcomes :
              /\ quickSaveVenues(venues, io)
              /\ outcome' = IF SaveOk(io) THEN "ok_200" ELSE "error_500"
              /\ pc' = IF SaveOk(io) THEN "closing" ELSE "done"
       ELSE UNCHANGED storeVars /\ outcome' = "ok_200" /\ pc' = "closing"
    /\ UNCHANGED <<envVars, scrapeVars, op, venues, loaded, workset,
                   idx, updatedCount, browser, launches, page>>

\* Lines 462-464: the only save of the handler; a failed save throws.
QuickFinish ==
    /\ op = "quick" /\ pc = "finish"
    /\ IF updatedCount > 0
       THEN \E io \in IOOutcomes :
              /\ quickSaveVenues(venues, io)
              /\ outcome' = IF SaveOk(io) THEN "ok_200" ELSE "error_500"
       ELSE UNCHANGED storeVars /\ outcome' = "ok_200"
    /\ pc' = "closing"
    /\ UNCHANGED <<envVars, scrapeVars, op, venues, loaded, workset,
                   idx, updatedCount, browser, launches, page>>

\* Lines 466-468: finally { if (browser) await browser.close() }.
QuickClose ==
    /\ op = "quick" /\ pc = "closing"
    /\ browser' = IF browser = "open" THEN "closed" ELSE browser
    /\ pc' = "done"
    /\ UNCHANGED <<storeVars, envVars, scrapeVars, op, venues,
                   loaded, workset, idx, updatedCount, launches, page, outcome>>

\* Lines 470-478: the body of the 200 response of a run, from the locals of
\* the handler; venuesNeedingInfo was filtered from the records as loaded.
QuickResponse ==
    [venuesProcessed |-> Len(workset),
     venuesUpdated |-> updatedCount,
     totalVenuesNeedingWork |->
       Cardinality({ i \in 1..Len(loaded) : QuickNeedsInfo(loaded[i]) })]

\* A save is the next thing the run does: the fifth update of Apply (lines
\* 755-759), the save at run end (777-779, and 462-464 of the handler).
SavePending ==
    \/ /\ op = "full" /\ pc = "apply" /\ ret # <<>>
       /\ Updated(current, ret[1]) /\ (updatedCount + 1) % SaveEvery = 0
    \/ /\ op \in {"full", "quick"} /\ pc = "finish" /\ updatedCount > 0

\* The process stops at any point of a run: between two steps, or inside a
\* pending save after copyFileSync, before writeFileSync has opened the store
\* or after it has truncated it. The locals of the run are gone.
Crash ==
    /\ op \in {"full", "quick"} /\ pc # "done"
    /\ \/ UNCHANGED <<disk, backup>>
       \/ /\ SavePending
          /\ backup' = disk
          /\ disk' \in {disk, <<>>}
    /\ op' = "idle" /\ pc' = "idle" /\ outcome' = "crashed"
    /\ ResetRun
    /\ UNCHANGED <<discVars, call>>

NextFull ==
    \/ StartFull \/ Launch \/ ScrapeVenueInfo \/ NewPage \/ GotoPrimary
    \/ ContactLinks \/ GotoContact \/ Catch \/ Finally \/ Apply \/ Delay
    \/ BatchDelay \/ Finish \/ CloseBrowser \/ Return

NextQuick ==
    \/ StartQuick \/ QuickLaunch \/ QuickScrapeVenue \/ QuickNewPage
    \/ QuickGoto \/ QuickFinally \/ QuickApply \/ QuickDelay \/ QuickFinish
    \/ QuickClose

-----------------------------------------------------------------------------
(* Discovered-venue store: discovered_venues.csv *)

WriteOutcomes == {"ok", "write_throws", "write_torn"}

\* writeFileSync of the discovered store; no copy of the prior file is made.
discAfterWrite(vs, w) ==
    CASE w = "ok" -> vs
      [] w = "write_torn" -> <<>>
      [] OTHER -> discDisk

\* saveDiscoveredVenues of scripts/venue-discovery.js: the catch only logs.
saveDiscoveredVenues(vs, w) ==
    /\ discDisk' = discAfterWrite(vs, w)
    /\ UNCHANGED discBackup

\* saveDiscoveredVenues of update-venue-status.js and of the library: the
\* catch rethrows, which the caller sees as w # "ok".
libSaveDiscoveredVenues(vs, w) ==
    /\ discDisk' = discAfterWrite(vs, w)
    /\ UNCHANGED discBackup

loadDiscoveredVenues(readOk) == IF readOk THEN discDisk ELSE <<>>

-----------------------------------------------------------------------------
(* discoverVenuesInCity(city, maxResults) of scripts/venue-discovery.js *)

\* The result lists a search page may yield, after the filters of evaluate.
SearchResults(c) ==
    { <<>>,
      << Discovered("Blue Note", c, "pending") >>,
      << Discovered("BLUE NOTE", c, "pending"), Discovered("Pinhook", c, "pending") >> }

\* Faulty variant of AddUnique: the key of a result is not looked up.
AddUniqueNoCheck(rs, keys, found, cap) ==
    [keys |-> keys \cup { Key(rs[i]) : i \in 1..Len(rs) },
     found |-> SubSeq(found \o rs, 1, Min(Len(found \o rs), cap))]

\* Lines 243-249: venues.forEach(add when the key is new and under the cap).
RECURSIVE AddUnique(_, _, _, _)
AddUnique(rs, keys, found, cap) ==
    IF rs = <<>> THEN [keys |-> keys, found |-> found]
    ELSE IF Key(Head(rs)) \notin keys /\ Len(found) < cap
         THEN AddUnique(Tail(rs), keys \cup {Key(Head(rs))}, Append(found, Head(rs)), cap)
         ELSE AddUnique(Tail(rs), keys, found, cap)

\* The two implementations of discoverVenuesInCity: the script and the
\* serverless function.
DiscoverOps == {"discover", "discoverFn"}

\* discover-venues.js 27-34 and 168-191: the handler calls the function with
\* the city and the cap of the request; the set of known keys starts empty
\* and the discovered store is not read.
StartDiscoverFn ==
    /\ op = "idle" /\ outcome = "none"
    /\ \E c \in Cities, m \in 1..2 :
         city' = c /\ maxResults' = m
    /\ discoveredVenues' = <<>> /\ existingVenues' = {}
    /\ newVenues' = <<>> /\ term' = 0
    /\ op' = "discoverFn" /\ pc' = "launch" /\ outcome' = "running"
    /\ UNCHANGED <<storeVars, discVars, call, scrapeVars, venues, loaded, workset, idx,
                   updatedCount, browser, launches, page>>

\* Lines 137-144; the keys are computed outside the try, so a stored record
\* without a name or a location makes the call reject.
StartDiscover ==
    /\ op = "idle" /\ outcome = "none"
    /\ \E c \in Cities, m \in 1..2, readOk \in BOOLEAN :
         LET vs == loadDiscoveredVenues(readOk) IN
         /\ city' = c /\ maxResults' = m
         /\ discoveredVenues' = vs
         /\ IF \A i \in 1..Len(vs) : HasIdentity(vs[i])
            THEN /\ existingVenues' = { Key(vs[i]) : i \in 1..Len(vs) }
                 /\ pc' = "launch" /\ outcome' = "running"
            ELSE /\ existingVenues' = {}
                 /\ pc' = "done" /\ outcome' = "rejected"
    /\ newVenues' = <<>> /\ term' = 0
    /\ op' = "discover"
    /\ UNCHANGED <<storeVars, discVars, call, scrapeVars, venues, loaded, workset, idx,
                   updatedCount, browser, launches, page>>

\* Lines 146-158 and 262-263: launch and the one page of the run.
DiscoverLaunch ==
    /\ op \in DiscoverOps /\ pc = "launch"
    /\ \/ /\ pc' = "closing" /\ outcome' = "launch_failed"
          /\ UNCHANGED <<browser, launches, page, term>>
       \/ /\ browser' = "open" /\ launches' = launches + 1
          /\ pc' = "closing" /\ outcome' = "launch_failed"
          /\ UNCHANGED <<page, term>>
       \/ /\ browser' = "open" /\ launches' = launches + 1
          /\ page' = page + 1 /\ term' = 1
          /\ pc' = "search" /\ UNCHANGED outcome
    /\ UNCHANGED <<storeVars, discVars, call, scrapeVars, op, venues, loaded,
                   workset, idx, updatedCount, discoveredVenues, existingVenues,
                   newVenues, city, maxResults>>

\* Faulty variant of Search: the loop has no break on the cap.
SearchNoBreak ==
    /\ op \in DiscoverOps /\ pc = "search"
    /\ IF term > NumTerms
       THEN /\ pc' = "closing"
            /\ UNCHANGED <<existingVenues, newVenues, term>>
       ELSE /\ pc' = "search"
            /\ term' = term + 1
            /\ \/ UNCHANGED <<existingVenues, newVenues>>
               \/ \E rs \in SearchResults(city) :
                    LET a == AddUnique(rs, existingVenues, newVenues, maxResults) IN
                    /\ existingVenues' = a.keys
                    /\ newVenues' = a.found
    /\ UNCHANGED <<storeVars, discVars, call, scrapeVars, op, venues, loaded,
                   workset, idx, updatedCount, browser, launches, page, outcome,
                   discoveredVenues, city, maxResults>>

\* Lines 160-260: one search term; an error skips to the next term.
Search ==
    /\ op \in DiscoverOps /\ pc = "search"
    /\ IF term > NumTerms \/ Len(newVenues) >= maxResults
       THEN /\ pc' = "closing"
            /\ UNCHANGED <<existingVenues, newVenues, term>>
       ELSE /\ pc' = "search"
            /\ term' = term + 1
            /\ \/ UNCHANGED <<existingVenues, newVenues>>
               \/ \E rs \in SearchResults(city) :
                    LET a == AddUnique(rs, existingVenues, newVenues, maxResults) IN
                    /\ existingVenues' = a.keys
                    /\ newVenues' = a.found
    /\ UNCHANGED <<storeVars, discVars, call, scrapeVars, op, venues, loaded,
                   workset, idx, updatedCount, browser, launches, page, outcome,
                   discoveredVenues, city, maxResults>>

\* Lines 264-266: finally { if (browser) await browser.close() }.
DiscoverClose ==
    /\ op \in DiscoverOps /\ pc = "closing"
    /\ browser' = IF browser = "open" THEN "closed" ELSE browser
    /\ page' = 0
    /\ pc' = "save"
    /\ UNCHANGED <<storeVars, discVars, call, scrapeVars, discoverVars, op, venues,
                   loaded, workset, idx, updatedCount, launches, outcome>>

\* Lines 268-276.
DiscoverSave ==
    /\ op = "discover" /\ pc = "save"
    /\ IF newVenues # <<>>
       THEN \E w \in WriteOutcomes :
              saveDiscoveredVenues(discoveredVenues \o newVenues, w)
       ELSE UNCHANGED discVars
    /\ outcome' = IF outcome = "running" THEN "completed" ELSE outcome
    /\ pc' = "done"
    /\ UNCHANGED <<storeVars, call, scrapeVars, discoverVars, op, venues, loaded,
                   workset, idx, updatedCount, browser, launches, page>>

\* discover-venues.js 156-166 and 190-215: nothing is saved; the function
\* returns newVenues, or rethrows a critical error, which the handler answers
\* with 500.
DiscoverRespond ==
    /\ op = "discoverFn" /\ pc = "save"
    /\ outcome' = IF outcome = "running" THEN "ok_200" ELSE "error_500"
    /\ pc' = "done"
    /\ UNCHANGED <<storeVars, discVars, call, scrapeVars, discoverVars, op, venues,
                   loaded, workset, idx, updatedCount, browser, launches, page>>

-----------------------------------------------------------------------------
(* updateVenueStatus(venueName, location, status) *)

StatusNames == {"blue note", "Pinhook", "Motorco"}

RequestLocations == {"durham", "Raleigh"}

\* The statuses the handlers let through.
RequestStatuses == {"approved", "rejected"}

\* The predicate of findIndex stops at a record when it returns true or
\* throws: v.name.toLowerCase() throws on a record without a name, and
\* v.location.toLowerCase() is evaluated only when the name matched.
Stops(v, n, l) ==
    \/ "name" \notin DOMAIN v
    \/ /\ toLowerCase(v.name) = toLowerCase(n)
       /\ \/ "location" \notin DOMAIN v
          \/ toLowerCase(v.location) = toLowerCase(l)

firstStop(vs, n, l) ==
    LET hits == { i \in 1..Len(vs) : Stops(vs[i], n, l) }
    IN IF hits = {} THEN 0 ELSE CHOOSE i \in hits : \A j \in hits : i <= j

\* The lookup raises a TypeError.
lookupThrows(vs, n, l) ==
    LET i == firstStop(vs, n, l)
    IN i > 0 /\ ~HasIdentity(vs[i])

\* venues.findIndex(...): the first index whose lowercased name and location
\* both match, 0 for -1.
findIndex(vs, n, l) == IF lookupThrows(vs, n, l) THEN 0 ELSE firstStop(vs, n, l)

\* Faulty variant of UpdateVenueStatus: no try around the lookup.
UpdateVenueStatusUncaught ==
    /\ op = "idle" /\ outcome = "none"
    /\ \E n \in StatusNames, l \in RequestLocations, st \in RequestStatuses,
          readOk \in BOOLEAN :
         LET vs == loadDiscoveredVenues(readOk)
             raised == lookupThrows(vs, n, l)
             venueIndex == findIndex(vs, n, l)
             req == [kind |-> "set-status", name |-> n, location |-> l,
                     status |-> st, read |-> readOk, raised |-> raised]
         IN IF raised
            THEN /\ outcome' = "raised"
                 /\ call' = req @@ [was |-> "", write |-> "none"]
                 /\ UNCHANGED discVars
            ELSE IF venueIndex = 0
            THEN /\ outcome' = "not_found"
                 /\ call' = req @@ [was |-> "", write |-> "none"]
                 /\ UNCHANGED discVars
            ELSE \E w \in WriteOutcomes :
                 /\ libSaveDiscoveredVenues([vs EXCEPT ![venueIndex].status = st], w)
                 /\ outcome' = IF w = "ok" THEN "status_set" ELSE "not_found"
                 /\ call' = req @@ [was |-> vs[venueIndex].status, write |-> w]
    /\ UNCHANGED <<storeVars, scrapeVars, discoverVars, op, pc, venues, loaded,
                   workset, idx, updatedCount, browser, launches, page>>

\* Faulty variant of UpdateVenueStatus: an approved or rejected record is
\* left as it is.
UpdateVenueStatusTerminal ==
    /\ op = "idle" /\ outcome = "none"
    /\ \E n \in StatusNames, l \in RequestLocations, st \in RequestStatuses,
          readOk \in BOOLEAN :
         LET vs == loadDiscoveredVenues(readOk)
             raised == lookupThrows(vs, n, l)
             venueIndex == findIndex(vs, n, l)
             req == [kind |-> "set-status", name |-> n, location |-> l,
                     status |-> st, read |-> readOk, raised |-> raised]
         IN IF raised \/ venueIndex = 0
            THEN /\ outcome' = "not_found"
                 /\ call' = req @@ [was |-> "", write |-> "none"]
                 /\ UNCHANGED discVars
            ELSE IF vs[venueIndex].status # "pending"
            THEN /\ outcome' = "not_found"
                 /\ call' = req @@ [was |-> vs[venueIndex].status, write |-> "ok"]
                 /\ UNCHANGED discVars
            ELSE \E w \in WriteOutcomes :
                 /\ libSaveDiscoveredVenues([vs EXCEPT ![venueIndex].status = st], w)
                 /\ outcome' = IF w = "ok" THEN "status_set" ELSE "not_found"
                 /\ call' = req @@ [was |-> vs[venueIndex].status, write |-> w]
    /\ UNCHANGED <<storeVars, scrapeVars, discoverVars, op, pc, venues, loaded,
                   workset, idx, updatedCount, browser, launches, page>>

\* update-venue-status.js 49-68 and 70-125: the handler's early returns (405,
\* 400, and 500 from the catch when the body cannot be destructured), then
\* load, find, set, save; an error gives false.  true is answered with 200
\* (status_set), false with 404 (not_found).
UpdateVenueStatus ==
    /\ op = "idle" /\ outcome = "none"
    /\ \E method \in {"POST", "GET"}, parsed \in BOOLEAN,
          n \in StatusNames \cup {""}, l \in RequestLocations \cup {""},
          st \in RequestStatuses \cup {"", "pending", "archived"},
          readOk \in BOOLEAN :
         LET vs == loadDiscoveredVenues(readOk)
             raised == lookupThrows(vs, n, l)
             venueIndex == findIndex(vs, n, l)
             req == [kind |-> "set-status", name |-> n, location |-> l,
                     status |-> st, read |-> readOk, raised |-> raised]
             \* the request as the handler's early returns see it; a body
             \* that is absent or is not JSON gives no parameter at all
             refused == [kind |-> "refused", method |-> method, parsed |-> parsed,
                         name |-> IF parsed THEN n ELSE "",
                         location |-> IF parsed THEN l ELSE "",
                         status |-> IF parsed THEN st ELSE ""]
         IN IF method # "POST"
            THEN /\ outcome' = "refused_405" /\ call' = refused
                 /\ UNCHANGED discVars
            ELSE IF ~parsed
            THEN /\ outcome' = "refused_500" /\ call' = refused
                 /\ UNCHANGED discVars
            ELSE IF n = "" \/ l = "" \/ st = ""
            THEN /\ outcome' = "refused_400" /\ call' = refused
                 /\ UNCHANGED discVars
            ELSE IF st # "approved" /\ st # "rejected"
            THEN /\ outcome' = "refused_400" /\ call' = refused
                 /\ UNCHANGED discVars
            ELSE IF raised \/ venueIndex = 0
            THEN /\ outcome' = "not_found"
                 /\ call' = req @@ [was |-> "", write |-> "none"]
                 /\ UNCHANGED discVars
            ELSE \E w \in WriteOutcomes :
                 /\ libSaveDiscoveredVenues([vs EXCEPT ![venueIndex].status = st], w)
                 /\ outcome' = IF w = "ok" THEN "status_set" ELSE "not_found"
                 /\ call' = req @@ [was |-> vs[venueIndex].status, write |-> w]
    /\ UNCHANGED <<storeVars, scrapeVars, discoverVars, op, pc, venues, loaded,
                   workset, idx, updatedCount, browser, launches, page>>

-----------------------------------------------------------------------------
(* Promotion of approved venues: add-approved-venues *)

\* netlify/functions/add-approved-venues.js 23-33: [] when the read fails.
loadMainVenues(readOk) == IF readOk THEN disk ELSE <<>>

RECURSIVE Filter(_, _)
\* Array.prototype.filter, by the indexes kept.
Filter(vs, keep) ==
    IF vs = <<>> THEN <<>>
    ELSE Filter(SubSeq(vs, 1, Len(vs) - 1), keep)
           \o (IF Len(vs) \in keep THEN <<vs[Len(vs)]>> ELSE <<>>)

getApprovedVenues(readOk) ==
    LET vs == loadDiscoveredVenues(readOk)
    IN Filter(vs, { i \in 1..Len(vs) : vs[i].status = "approved" })

\* Lines 71-82: the main-store record made of an approved venue, as written.
Promoted(d) ==
    stringifyRow([Venue(d.name, Site, "", "", NULL, "") EXCEPT !.location = d.location])

\* Lines 84-88: kept unless its lowercased name is the name of a main record.
uniqueNewVenues(approved, existing) ==
    LET existingNames == { toLowerCase(existing[i].name) : i \in 1..Len(existing) }
    IN Filter(approved, { i \in 1..Len(approved) :
                            toLowerCase(approved[i].name) \notin existingNames })

\* The handler: 200 with nothing to add, 200 after the write, 500 on an error.
AddApprovedVenues ==
    /\ op = "idle" /\ outcome = "none"
    /\ \E readDisc \in BOOLEAN, readMain \in BOOLEAN, io \in IOOutcomes :
         LET approved == getApprovedVenues(readDisc)
             existing == loadMainVenues(readMain)
             req == [kind |-> "add-approved", read |-> readDisc,
                     readMain |-> readMain]
         IN IF approved = <<>>
            THEN /\ outcome' = "no_approved"
                 /\ call' = req @@ [io |-> "none"]
                 /\ UNCHANGED disk
            ELSE IF io = "copy_throws"
                    \/ \E i \in 1..Len(approved) : "name" \notin DOMAIN approved[i]
            THEN /\ outcome' = "error_500"
                 /\ call' = req @@ [io |-> "copy_throws"]
                 /\ UNCHANGED disk
            ELSE IF uniqueNewVenues(approved, existing) = <<>>
            THEN /\ outcome' = "all_duplicates"
                 /\ call' = req @@ [io |-> "none"]
                 /\ UNCHANGED disk
            ELSE LET unique == uniqueNewVenues(approved, existing)
                     added == [i \in 1..Len(unique) |-> Promoted(unique[i])]
                 IN /\ disk' = CASE io = "ok" -> existing \o added
                                  [] io = "write_torn" -> <<>>
                                  [] OTHER -> disk
                    /\ outcome' = IF io = "ok" THEN "promoted" ELSE "error_500"
                    /\ call' = req @@ [io |-> io]
    /\ UNCHANGED <<backup, writes, saveCalls, discVars, scrapeVars, discoverVars,
                   op, pc, venues, loaded, workset, idx, updatedCount, browser,
                   launches, page>>

NextDiscover ==
    \/ StartDiscover \/ DiscoverLaunch \/ Search \/ DiscoverClose
    \/ DiscoverSave \/ UpdateVenueStatus \/ AddApprovedVenues
    \/ StartDiscoverFn \/ DiscoverRespond

Next == NextFull \/ NextQuick \/ NextDiscover \/ NextEnrich \/ Crash

Spec == Init /\ [][Next]_vars

-----------------------------------------------------------------------------
(* A full run with another writer of the main store at work *)

\* One record to enrich in the main store, one approved venue to promote.
InitOverlap ==
    /\ disk \in Stores(1)
    /\ discDisk = << Discovered("Blue Note", "Durham", "approved") >>
    /\ backup = <<>> /\ discBackup = <<>>
    /\ op = "idle" /\ pc = "idle" /\ outcome = "none"
    /\ call = <<>> /\ NoRun

\* While the run is between its load and its end another process saves the
\* main store: the promotion handler appends the approved venues to the file
\* as it is now, or a second run started by the scheduler (cron.schedule calls
\* scrapeMissingInfo without awaiting the run before) flushes the file it
\* loaded with the facts it found.
OtherWriterSaves ==
    /\ op = "full" /\ outcome = "running"
    /\ \/ LET unique == uniqueNewVenues(getApprovedVenues(TRUE), disk) IN
          /\ unique # <<>>
          /\ disk' = disk \o [i \in 1..Len(unique) |-> Promoted(unique[i])]
          /\ UNCHANGED backup
       \/ /\ disk = loaded
          /\ \E i \in 1..Len(disk), r \in SecondaryContents :
               /\ NeedsInfo(disk[i]) /\ Updated(disk[i], r)
               /\ disk' = stringify([disk EXCEPT ![i] = ApplyResult(disk[i], r)])
          /\ backup' = disk
    /\ UNCHANGED <<writes, saveCalls, discVars, call, scrapeVars, discoverVars, op, pc,
                   venues, loaded, workset, idx, updatedCount, browser, launches,
                   page, outcome>>

NextOverlap ==
    \/ StartFull \/ Launch \/ ScrapeVenueInfo \/ NewPage \/ GotoPrimary
    \/ ContactLinks \/ GotoContact \/ Catch \/ Finally \/ Apply \/ Delay
    \/ Finish \/ CloseBrowser \/ Return \/ OtherWriterSaves

SpecOverlap == InitOverlap /\ [][NextOverlap]_vars

-----------------------------------------------------------------------------
(* A full run whose awaited operations all settle *)

\* Every await of the run resolves or rejects (each navigation has a timeout,
\* the delays are timers), so a run that can take a step takes one; the
\* process is not stopped from outside.
SpecLive == Init /\ [][NextFull]_vars /\ WF_vars(NextFull)

-----------------------------------------------------------------------------
(* Strings and regular expressions, as the extractors use them *)

\* The characters of a string, as a set.
Chars(s) == { SubSeq(s, i, i) : i \in 1..Len(s) }

\* The character ranges of the expressions: \d, a-z, A-Z, \w (a set), and
\* every character of the texts in the order of the code units.
Alphabet ==
    [ digit |-> "0123456789",
      lower |-> "abcdefghijklmnopqrstuvwxyz",
      upper |-> "ABCDEFGHIJKLMNOPQRSTUVWXYZ",
      word  |-> Chars("0123456789abcdefghijklmnopqrstuvwxyzABCDEFGHIJKLMNOPQRSTUVWXYZ_"),
      units |-> " &()+-.0123456789:@ABCDEFGHIJKLMNOPQRSTUVWXYZ_abcdefghijklmnopqrstuvwxyz" ]

RECURSIVE MapChars(_, _, _)
\* The string with every character of from replaced by its partner in to:
\* toLowerCase is MapChars(s, Alphabet.upper, Alphabet.lower).
MapChars(s, from, to) ==
    IF s = "" THEN ""
    ELSE LET c == SubSeq(s, 1, 1)
             at == { k \in 1..Len(from) : SubSeq(from, k, k) = c }
         IN (IF at = {} THEN c ELSE LET k == CHOOSE k \in at : TRUE IN SubSeq(to, k, k))
              \o MapChars(SubSeq(s, 2, Len(s)), from, to)

\* String.prototype.includes
Includes(s, sub) ==
    \E i \in 1..(Len(s) - Len(sub) + 1) : SubSeq(s, i, i + Len(sub) - 1) = sub

RECURSIVE Ends(_, _, _), Thru(_, _, _)
\* The positions where a match of re that starts at i may end, in the order
\* a backtracking matcher tries them.  An expression is <<"lit", string>>, a
\* character class <<"in", set>> or <<"notin", set>>, \b <<"b">>, a sequence
\* <<"cat", list>>, an alternation <<"alt", list>> or a greedy repetition
\* <<"rep", r, lo, hi>>, hi = -1 for no upper limit.
Ends(re, s, i) ==
    CASE re[1] = "lit" ->
           LET j == i + Len(re[2]) - 1
           IN IF j <= Len(s) /\ SubSeq(s, i, j) = re[2] THEN <<j + 1>> ELSE <<>>
      [] re[1] = "in" ->
           IF i <= Len(s) /\ SubSeq(s, i, i) \in re[2] THEN <<i + 1>> ELSE <<>>
      [] re[1] = "notin" ->
           IF i <= Len(s) /\ SubSeq(s, i, i) \notin re[2] THEN <<i + 1>> ELSE <<>>
      [] re[1] = "b" ->
           LET isWord(k) == k >= 1 /\ k <= Len(s) /\ SubSeq(s, k, k) \in Alphabet.word
           IN IF isWord(i - 1) # isWord(i) THEN <<i>> ELSE <<>>
      [] re[1] = "cat" ->
           IF re[2] = <<>> THEN <<i>>
           ELSE Thru(<<"cat", Tail(re[2])>>, s, Ends(Head(re[2]), s, i))
      [] re[1] = "alt" ->
           IF re[2] = <<>> THEN <<>>
           ELSE Ends(Head(re[2]), s, i) \o Ends(<<"alt", Tail(re[2])>>, s, i)
      [] re[1] = "rep" ->
           \* one more repetition is tried before none
           LET once == SelectSeq(Ends(re[2], s, i), LAMBDA e : e > i)
           IN (IF re[4] = 0 THEN <<>>
               ELSE Thru(<<"rep", re[2], re[3] - 1, re[4] - 1>>, s, once))
                \o (IF re[3] <= 0 THEN <<i>> ELSE <<>>)

\* The ends of re from each of the starts, in order.
Thru(re, s, starts) ==
    IF starts = <<>> THEN <<>>
    ELSE Ends(re, s, Head(starts)) \o Thru(re, s, Tail(starts))

RECURSIVE SpansFrom(_, _, _)
\* The matches of a g-flagged expression from position i on, leftmost first,
\* each as <<start, end>>.
SpansFrom(re, s, i) ==
    IF i > Len(s) + 1 THEN <<>>
    ELSE LET es == Ends(re, s, i)
         IN IF es = <<>> THEN SpansFrom(re, s, i + 1)
            ELSE <<<<i, Head(es)>>>> \o
                   SpansFrom(re, s, IF Head(es) > i THEN Head(es) ELSE i + 1)

\* String.prototype.match with a g-flagged expression: the matched texts (an
\* empty list stands for null).  With the i flag (ci) the expression, written
\* in lower case, is matched against the lowercased text.
Match(s, re, ci) ==
    LET sp == SpansFrom(re, IF ci THEN MapChars(s, Alphabet.upper, Alphabet.lower) ELSE s, 1)
    IN [k \in 1..Len(sp) |-> SubSeq(s, sp[k][1], sp[k][2] - 1)]

\* String.prototype.replace(re, '') with a g-flagged expression.
Remove(s, re, ci) ==
    LET sp == SpansFrom(re, IF ci THEN MapChars(s, Alphabet.upper, Alphabet.lower) ELSE s, 1)
        cut == { k \in 1..Len(s) : \E j \in 1..Len(sp) : sp[j][1] <= k /\ k < sp[j][2] }
        RECURSIVE kept(_)
        kept(k) == IF k > Len(s) THEN ""
                   ELSE (IF k \in cut THEN "" ELSE SubSeq(s, k, k)) \o kept(k + 1)
    IN kept(1)
-----------------------------------------------------------------------------
(* The extractors of scripts/venue-scraper.js on a text; null is <<>>, a    *)
(* value v is <<v>>                                                         *)

RECURSIVE MatchEach(_, _)
\* for (const pattern of patterns) text.match(pattern): every match of
\* every pattern, pattern by pattern; a pattern is <<expression, i flag>>.
MatchEach(text, patterns) ==
    IF patterns = <<>> THEN <<>>
    ELSE Match(text, Head(patterns)[1], Head(patterns)[2])
           \o MatchEach(text, Tail(patterns))

RECURSIVE Distinct(_)
\* The insertion order of a Set: every value once, where it came first.
Distinct(xs) ==
    IF xs = <<>> THEN <<>>
    ELSE LET init == Distinct(SubSeq(xs, 1, Len(xs) - 1))
             last == xs[Len(xs)]
         IN IF \E k \in 1..Len(init) : init[k] = last THEN init ELSE Append(init, last)

\* Lines 347-354: [a-zA-Z0-9._%+-]+@[a-zA-Z0-9.-]+\.[a-zA-Z]{2,} with the
\* flag g, (?:booking|info|contact|events|music)@... and mailto:(...) with gi.
emailPatterns ==
    LET lit(w) == <<"lit", w>>
        in(cs) == <<"in", Chars(cs)>>
        cat(rs) == <<"cat", rs>>
        plus(r) == <<"rep", r, 1, -1>>
        letters == Alphabet.lower \o Alphabet.upper
        address(local) ==
          cat(<<local, lit("@"), plus(in(letters \o Alphabet.digit \o ".-")), lit("."),
                <<"rep", in(letters), 2, -1>> >>)
        anyLocal == plus(in(letters \o Alphabet.digit \o "._%+-"))
        roleLocal == <<"alt", <<lit("booking"), lit("info"), lit("contact"),
                                lit("events"), lit("music")>> >>
    IN << <<address(anyLocal), FALSE>>,
          <<address(roleLocal), TRUE>>,
          <<cat(<<lit("mailto:"), address(anyLocal)>>), TRUE>> >>

\* Lines 356-368 and 371: the candidates, in insertion order.
foundEmails(text) ==
    LET ms == MatchEach(text, emailPatterns)
        \* match.replace(/mailto:/i, ''): the first occurrence only
        stripMailto(m) ==
          LET at == { k \in 1..(Len(m) - 6) :
                        MapChars(SubSeq(m, k, k + 6), Alphabet.upper, Alphabet.lower)
                          = "mailto:" }
              k == CHOOSE k \in at : \A j \in at : k <= j
          IN IF at = {} THEN m ELSE SubSeq(m, 1, k - 1) \o SubSeq(m, k + 7, Len(m))
        es == [k \in 1..Len(ms) |-> stripMailto(ms[k])]
        kept == SelectSeq(es, LAMBDA e :
                  Includes(e, "@") /\ ~Includes(e, "noreply") /\ ~Includes(e, "example"))
    IN Distinct([k \in 1..Len(kept) |-> MapChars(kept[k], Alphabet.upper, Alphabet.lower)])

\* Faulty variant of extractEmail: the first candidate, whatever its prefix.
extractEmailFirstFound(text) ==
    IF foundEmails(text) # <<>> THEN <<foundEmails(text)[1]>> ELSE <<>>

\* Lines 346-377.
extractEmail(text) ==
    LET emails == foundEmails(text)
        \* /^(booking|info|contact|events|music)@/.test(email)
        role == <<"cat", << <<"alt", << <<"lit", "booking">>, <<"lit", "info">>,
                                        <<"lit", "contact">>, <<"lit", "events">>,
                                        <<"lit", "music">> >> >>, <<"lit", "@">> >> >>
        priorityEmails == SelectSeq(emails, LAMBDA email : Ends(role, email, 1) # <<>>)
    IN IF priorityEmails # <<>> THEN <<priorityEmails[1]>>
       ELSE IF emails # <<>> THEN <<emails[1]>> ELSE <<>>

\* Lines 381-392: after (?:phone|tel|call|contact)[:\s]* with gi, between
\* \b and \b with g, after tel: with gi, and after \b\+1 with g.
phonePatterns ==
    LET lit(w) == <<"lit", w>>
        in(cs) == <<"in", Chars(cs)>>
        cat(rs) == <<"cat", rs>>
        star(r) == <<"rep", r, 0, -1>>
        digits(n) == <<"rep", in(Alphabet.digit), n, n>>
        sep == star(in("-. "))
        words == <<"alt", <<lit("phone"), lit("tel"), lit("call"), lit("contact")>> >>
        parenthesized ==
          cat(<<lit("("), digits(3), lit(")"), star(in(" ")), digits(3), sep, digits(4)>>)
        plain == cat(<<digits(3), sep, digits(3), sep, digits(4)>>)
    IN << <<cat(<<words, star(in(": ")), parenthesized>>), TRUE>>,
          <<cat(<<words, star(in(": ")), plain>>), TRUE>>,
          <<cat(<< <<"b">>, parenthesized, <<"b">> >>), FALSE>>,
          <<cat(<< <<"b">>, plain, <<"b">> >>), FALSE>>,
          <<cat(<<lit("tel:"), <<"rep", lit("+"), 0, 1>>,
                  <<"rep", in(Alphabet.digit \o " -()."), 1, -1>> >>), TRUE>>,
          <<cat(<< <<"b">>, lit("+1"), sep, plain, <<"b">> >>), FALSE>> >>

\* Lines 380-425.
extractPhone(text) ==
    LET ms == MatchEach(text, phonePatterns)
        \* lines 400-406: the digits of a match
        digits(m) ==
          LET words == <<"alt", << <<"lit", "phone">>, <<"lit", "tel">>,
                                   <<"lit", "call">>, <<"lit", "contact">> >> >>
              phone == Remove(Remove(m, <<"cat", <<words, <<"rep", <<"in", {":", " "}>>, 0, -1>> >> >>,
                                     TRUE),
                              <<"lit", "tel:">>, TRUE)
              clean == Remove(phone, <<"notin", Chars(Alphabet.digit \o "+()-. ")>>, FALSE)
          IN Remove(clean, <<"notin", Chars(Alphabet.digit)>>, FALSE)
        \* lines 409-417: ten digits, or eleven that start with 1
        ds == [k \in 1..Len(ms) |-> digits(ms[k])]
        valid == SelectSeq(ds, LAMBDA d :
                   Len(d) = 10 \/ (Len(d) = 11 /\ SubSeq(d, 1, 1) = "1"))
        formattedPhone(d) ==
          LET ten == IF Len(d) = 11 THEN SubSeq(d, 2, 11) ELSE d
          IN "(" \o SubSeq(ten, 1, 3) \o ") " \o SubSeq(ten, 4, 6) \o "-" \o SubSeq(ten, 7, 10)
        phones == Distinct([k \in 1..Len(valid) |-> formattedPhone(valid[k])])
    IN IF phones # <<>> THEN <<phones[1]>> ELSE <<>>

\* Lines 429-441: the seven patterns, all with the flags gi, around a number
\* (num is \d{1,5}).
capacityPatterns(num) ==
    LET lit(w) == <<"lit", w>>
        cat(rs) == <<"cat", rs>>
        alt(rs) == <<"alt", rs>>
        opt(r) == <<"rep", r, 0, 1>>
        spaces == <<"rep", <<"in", {" "}>>, 0, -1>>
        sep == <<"rep", <<"in", {":", " "}>>, 0, -1>>
    IN << <<cat(<<alt(<<lit("capacity"), lit("seating"), cat(<<lit("seat"), opt(lit("s"))>>),
                        cat(<<lit("hold"), opt(lit("s"))>>)>>), sep, num>>), TRUE>>,
          <<cat(<<num, sep,
                  alt(<<lit("capacity"), lit("person"), lit("people"),
                        cat(<<lit("guest"), opt(lit("s"))>>), lit("seat"),
                        lit("seating")>>)>>), TRUE>>,
          <<cat(<<alt(<<cat(<<lit("accommodate"), opt(lit("s"))>>),
                        cat(<<lit("fit"), opt(lit("s"))>>),
                        cat(<<lit("hold"), opt(lit("s"))>>)>>), sep,
                  opt(cat(<<lit("up"), spaces, lit("to"), spaces>>)), num>>), TRUE>>,
          <<cat(<<alt(<<lit("maximum"), lit("max")>>), sep,
                  alt(<<lit("capacity"), lit("occupancy"), lit("seating")>>), sep,
                  num>>), TRUE>>,
          <<cat(<<lit("standing"), sep, num>>), TRUE>>,
          <<cat(<<alt(<<lit("concert"), lit("show"), lit("event")>>), sep,
                  lit("capacity"), sep, num>>), TRUE>>,
          <<cat(<<alt(<<lit("occupancy"), lit("maximum")>>), sep, num>>), TRUE>> >>

\* Lines 443-462: the numbers of the matches, each parsed in base ten, that
\* lie in [50, 100000].
foundCapacities(text, num) ==
    LET ms == MatchEach(text, capacityPatterns(num))
        RECURSIVE parseInt(_)
        parseInt(n) ==
          IF n = "" THEN 0
          ELSE 10 * parseInt(SubSeq(n, 1, Len(n) - 1))
                 + (CHOOSE d \in 0..9 :
                      SubSeq(Alphabet.digit, d + 1, d + 1) = SubSeq(n, Len(n), Len(n)))
        numbers == UNION { { parseInt(Match(ms[k], num, FALSE)[j]) :
                               j \in 1..Len(Match(ms[k], num, FALSE)) } : k \in 1..Len(ms) }
    IN { capacity \in numbers : capacity >= 50 /\ capacity <= 100000 }

\* Lines 470-476: not a year of 2020-2030, not a four-digit number above 3000.
reasonableCapacities(caps) ==
    { cap \in caps : ~(cap >= 2020 /\ cap <= 2030)
                     /\ ~(cap >= 1000 /\ cap <= 9999 /\ cap > 3000) }

\* Lines 428-479: the largest of the reasonable capacities.
extractCapacity(text) ==
    LET caps == reasonableCapacities(
                  foundCapacities(text, <<"rep", <<"in", Chars(Alphabet.digit)>>, 1, 5>>))
    IN IF caps = {} THEN <<>> ELSE <<CHOOSE c \in caps : \A d \in caps : d <= c>>

\* Lines 483-499.
genreKeywords ==
    << "rock", "pop", "jazz", "blues", "country", "folk", "indie", "alternative",
       "metal", "punk", "electronic", "hip hop", "rap", "reggae", "funk", "soul",
       "r&b", "classical", "acoustic", "bluegrass", "americana", "gospel", "christian",
       "hard rock", "soft rock", "classic rock", "indie rock", "alt rock",
       "death metal", "black metal", "heavy metal", "thrash metal",
       "house music", "techno", "dubstep", "edm", "dance music",
       "old time", "oldtime", "traditional", "roots music", "world music",
       "singer songwriter", "singer-songwriter",
       "live music", "all genres", "variety", "eclectic", "diverse",
       "touring acts", "local bands", "original music", "cover bands" >>

RECURSIVE formatGenre(_)
\* Lines 509-511: the first letter of each word in upper case, the rest in lower.
formatGenre(genre) ==
    IF genre = "" THEN ""
    ELSE LET n == Len(genre)
             c == SubSeq(genre, n, n)
         IN formatGenre(SubSeq(genre, 1, n - 1))
              \o (IF n = 1 \/ SubSeq(genre, n - 1, n - 1) = " "
                  THEN MapChars(c, Alphabet.lower, Alphabet.upper)
                  ELSE MapChars(c, Alphabet.upper, Alphabet.lower))

\* Lines 517-522: [^.;!?\\n]{1,100} after music, genres?, style[s]? and
\* featuring, flags gi; in the expression literal \\ is a backslash and n the
\* letter n.
genrePatterns ==
    LET lit(w) == <<"lit", w>>
        opt(r) == <<"rep", r, 0, 1>>
        sep == <<"rep", <<"in", {":", " "}>>, 0, -1>>
        phrase == <<"rep", <<"notin", Chars(".;!?" \o "\\" \o "n")>>, 1, 100>>
    IN << <<<<"cat", <<lit("music"), sep, phrase>> >>, TRUE>>,
          <<<<"cat", <<lit("genre"), opt(lit("s")), sep, phrase>> >>, TRUE>>,
          <<<<"cat", <<lit("style"), opt(lit("s")), sep, phrase>> >>, TRUE>>,
          <<<<"cat", <<lit("featuring"), sep, phrase>> >>, TRUE>> >>

\* Lines 501-540: the keywords found as words of the lowercased text, then
\* those found anywhere in a matched phrase; a Set, so each once.
foundGenres(text) ==
    LET lowerContent == MapChars(text, Alphabet.upper, Alphabet.lower)
        words == SelectSeq(genreKeywords, LAMBDA genre :
                   Match(lowerContent, <<"cat", << <<"b">>, <<"lit", genre>>, <<"b">> >> >>,
                         TRUE) # <<>>)
        ms == MatchEach(text, genrePatterns)
        phrases == SelectSeq(genreKeywords, LAMBDA genre :
                     \E k \in 1..Len(ms) :
                       Includes(MapChars(ms[k], Alphabet.upper, Alphabet.lower), genre))
        all == words \o phrases
    IN Distinct([k \in 1..Len(all) |-> formatGenre(all[k])])

RECURSIVE Join(_, _)
\* Array.prototype.join
Join(xs, sep) ==
    IF xs = <<>> THEN ""
    ELSE IF Len(xs) = 1 THEN xs[1]
    ELSE xs[1] \o sep \o Join(Tail(xs), sep)

maxGenres == 8

\* Faulty variant of extractGenres: the genres in the order they were found.
extractGenresUnsorted(text) ==
    IF foundGenres(text) = <<>> THEN <<>>
    ELSE <<Join(SubSeq(foundGenres(text), 1, Min(Len(foundGenres(text)), maxGenres)), "; ")>>

\* Lines 542-551: sort() without a comparator orders by code units; then
\* slice(0, maxGenres) and join('; ').
extractGenres(text) ==
    LET unit(c) == CHOOSE k \in 1..Len(Alphabet.units) : SubSeq(Alphabet.units, k, k) = c
        RECURSIVE before(_, _)
        before(a, b) ==
          IF a = "" \/ b = "" THEN a = "" /\ b # ""
          ELSE IF SubSeq(a, 1, 1) = SubSeq(b, 1, 1)
               THEN before(SubSeq(a, 2, Len(a)), SubSeq(b, 2, Len(b)))
               ELSE unit(SubSeq(a, 1, 1)) < unit(SubSeq(b, 1, 1))
        genres == SortSeq(foundGenres(text), before)
    IN IF genres = <<>> THEN <<>>
       ELSE <<Join(SubSeq(genres, 1, Min(Len(genres), maxGenres)), "; ")>>

-----------------------------------------------------------------------------
(* The extractors called on texts *)

\* A text about to be handed to an extractor: addresses joined by " or ",
\* phone numbers in several notations, numbers next to a capacity keyword,
\* and lists of genres.
\* Faulty variant of venueType: the rules are tried from the last to the first.
venueTypeLastWins(name, snippet) ==
    LET \* the text is lowercased once, then searched
        Kind(c) ==
          IF Includes(c, "hall") \/ Includes(c, "center") THEN "Concert Hall"
          ELSE IF Includes(c, "outdoor") \/ Includes(c, "amphitheater") THEN "Outdoor Venue"
          ELSE IF Includes(c, "brewery") THEN "Brewery"
          ELSE IF Includes(c, "coffee") \/ Includes(c, "cafe") THEN "Coffee Shop"
          ELSE IF Includes(c, "bar") \/ Includes(c, "pub") THEN "Bar/Restaurant"
          ELSE IF Includes(c, "club") /\ Includes(c, "blues") THEN "Blues Club"
          ELSE IF Includes(c, "club") /\ Includes(c, "jazz") THEN "Jazz Club"
          ELSE IF Includes(c, "theater") \/ Includes(c, "theatre") THEN "Theater"
          ELSE "Music Venue"
        lowered == { MapChars(name \o " " \o snippet, Alphabet.upper, Alphabet.lower) }
    IN CHOOSE t \in { Kind(c) : c \in lowered } : TRUE

\* venue-discovery.js 198-209 (discover-venues.js 93-104 is the same text):
\* the venue type of a search result, from its name and snippet.
venueType(name, snippet) ==
    LET \* the text is lowercased once, then searched
        Kind(c) ==
          IF Includes(c, "theater") \/ Includes(c, "theatre") THEN "Theater"
          ELSE IF Includes(c, "club") /\ Includes(c, "jazz") THEN "Jazz Club"
          ELSE IF Includes(c, "club") /\ Includes(c, "blues") THEN "Blues Club"
          ELSE IF Includes(c, "bar") \/ Includes(c, "pub") THEN "Bar/Restaurant"
          ELSE IF Includes(c, "coffee") \/ Includes(c, "cafe") THEN "Coffee Shop"
          ELSE IF Includes(c, "brewery") THEN "Brewery"
          ELSE IF Includes(c, "outdoor") \/ Includes(c, "amphitheater") THEN "Outdoor Venue"
          ELSE IF Includes(c, "hall") \/ Includes(c, "center") THEN "Concert Hall"
          ELSE "Music Venue"
        lowered == { MapChars(name \o " " \o snippet, Alphabet.upper, Alphabet.lower) }
    IN CHOOSE t \in { Kind(c) : c \in lowered } : TRUE

\* venue-discovery.js 106-117: the same chain in extractVenueInfo, whose
\* brewery rule also looks for brewpub.
extractVenueInfoType(name, snippet) ==
    LET \* the text is lowercased once, then searched
        Kind(c) ==
          IF Includes(c, "theater") \/ Includes(c, "theatre") THEN "Theater"
          ELSE IF Includes(c, "club") /\ Includes(c, "jazz") THEN "Jazz Club"
          ELSE IF Includes(c, "club") /\ Includes(c, "blues") THEN "Blues Club"
          ELSE IF Includes(c, "bar") \/ Includes(c, "pub") THEN "Bar/Restaurant"
          ELSE IF Includes(c, "coffee") \/ Includes(c, "cafe") THEN "Coffee Shop"
          ELSE IF Includes(c, "brewery") \/ Includes(c, "brewpub") THEN "Brewery"
          ELSE IF Includes(c, "outdoor") \/ Includes(c, "amphitheater") THEN "Outdoor Venue"
          ELSE IF Includes(c, "hall") \/ Includes(c, "center") THEN "Concert Hall"
          ELSE "Music Venue"
        lowered == { MapChars(name \o " " \o snippet, Alphabet.upper, Alphabet.lower) }
    IN CHOOSE t \in { Kind(c) : c \in lowered } : TRUE

ExtractorCalls ==
    LET emailParts ==
          { "random@site.com", "booking@site.com", "Info@Venue.org", "mailto:Joe@x.org",
            "noreply@site.com", "rebooking@a.com", "see example@x.com", "no address",
            "NoReply@Site.com" }
        phoneTexts ==
          { pre \o area \o s1 \o "555" \o s2 \o last :
              pre \in {"", "Call ", "tel:", "x"},
              area \in {"(919)", "919", "+1 919", "19"},
              s1 \in {" ", "", "-", "."}, s2 \in {"-", " ", ""},
              last \in {"0134", "0199"} }
        capacityTexts ==
          { kw \o sep \o num \o rest :
              kw \in {"capacity", "occupancy", "Seats", "standing room", "doors"},
              sep \in {" ", ": "},
              num \in {"49", "450", "2024", "3500", "12000", "999999", "100000"},
              rest \in {"", " people", " or 800 guests"} }
        tenGenres == << "rock", "pop", "jazz", "blues", "country", "folk", "indie",
                        "metal", "punk", "funk" >>
        genreTexts ==
          { Join(SubSeq(tenGenres, i, j), ", ") : i \in 1..2, j \in 0..10 }
            \cup { "genres: bluesy hard rock", "Music: wrap and r&b", "Live Jazz and Blues" }
        typeWords == << "Theater", "THEATRE", "Club", "Jazz", "BLUES", "Bar", "Pub",
                        "Coffee", "Cafe", "Brewery", "Brewpub", "Outdoor",
                        "Amphitheater", "Hall", "Center" >>
        snippets ==
          { "live music" } \cup { typeWords[i] : i \in 1..Len(typeWords) }
            \cup { typeWords[i] \o " and " \o typeWords[j] :
                      i \in 1..Len(typeWords), j \in 1..Len(typeWords) }
        resultNames == { "Kings", "Jazz Club", "Music Hall" }
    IN { [kind |-> "text", fn |-> "extractEmail", text |-> a \o " or " \o b] :
           a \in emailParts, b \in emailParts }
         \cup { [kind |-> "text", fn |-> "extractPhone", text |-> t] : t \in phoneTexts }
         \cup { [kind |-> "text", fn |-> "extractCapacity", text |-> t] : t \in capacityTexts }
         \cup { [kind |-> "text", fn |-> "extractGenres", text |-> t] : t \in genreTexts }
         \cup { [kind |-> "text", fn |-> f, name |-> n, text |-> t] :
                  f \in {"venueType", "extractVenueInfo"}, n \in resultNames,
                  t \in snippets }

InitExtract ==
    /\ disk = <<>> /\ discDisk = <<>> /\ backup = <<>> /\ discBackup = <<>>
    /\ op = "idle" /\ pc = "idle" /\ outcome = "none"
    /\ NoRun
    /\ call \in ExtractorCalls

\* The extractor named fn is called on the text.
Extract(fn) ==
    /\ call.kind = "text" /\ call.fn = fn
    /\ call' = IF fn \in {"venueType", "extractVenueInfo"}
               THEN [kind |-> "extracted", fn |-> fn, name |-> call.name,
                     text |-> call.text,
                     result |-> IF fn = "venueType"
                                THEN venueType(call.name, call.text)
                                ELSE extractVenueInfoType(call.name, call.text)]
               ELSE [kind |-> "extracted", fn |-> fn, text |-> call.text,
                     result |-> CASE fn = "extractEmail" -> extractEmail(call.text)
                                  [] fn = "extractPhone" -> extractPhone(call.text)
                                  [] fn = "extractCapacity" -> extractCapacity(call.text)
                                  [] fn = "extractGenres" -> extractGenres(call.text)]
    /\ UNCHANGED <<storeVars, discVars, discoverVars, scrapeVars, op, pc, venues,
                   loaded, workset, idx, updatedCount, browser, launches, page, outcome>>

\* The phone number an extraction gave is the text of another extraction.
ExtractAgain ==
    /\ call.kind = "extracted" /\ call.fn = "extractPhone" /\ call.result # <<>>
    /\ call' = [kind |-> "again", fn |-> call.fn, text |-> call.result[1],
                result |-> extractPhone(call.result[1])]
    /\ UNCHANGED <<storeVars, discVars, discoverVars, scrapeVars, op, pc, venues,
                   loaded, workset, idx, updatedCount, browser, launches, page, outcome>>

NextExtract ==
    \/ Extract("extractEmail")
    \/ Extract("extractPhone")
    \/ Extract("extractCapacity")
    \/ Extract("extractGenres")
    \/ Extract("venueType")
    \/ Extract("extractVenueInfo")
    \/ ExtractAgain

SpecExtract == InitExtract /\ [][NextExtract]_vars

-----------------------------------------------------------------------------
(* Hot reload of the venue file: lib/venue-watcher.ts *)

\* Modifications of the venue file in one behaviour.
MaxVersions == 3

\* What loadVenues returns when it succeeds: the rows of the file as it is
\* now; of names the version of the file the rows were read from.
loadVenuesNow == [rows |-> call.rows, of |-> call.version]

\* Module state after import: cachedVenues = [], lastModified = 0; the file
\* exists with some modification time, with or without rows.
InitWatch ==
    /\ disk = <<>> /\ discDisk = <<>> /\ backup = <<>> /\ discBackup = <<>>
    /\ op = "idle" /\ pc = "idle" /\ outcome = "none"
    /\ NoRun
    /\ \E n \in 0..1 :
         call = [kind |-> "watch", rows |-> n, version |-> 1, mtimeMs |-> 1,
                 cachedVenues |-> [rows |-> 0, of |-> 0], lastModified |-> 0,
                 last |-> "import", stat |-> TRUE, reload |-> "none",
                 returned |-> <<>>]

\* Another process rewrites venues_master.csv: new rows, a later mtime.
ModifyFile ==
    /\ call.version < MaxVersions
    /\ \E n \in 0..1 :
         call' = [call EXCEPT !.rows = n, !.version = @ + 1, !.mtimeMs = @ + 1,
                              !.last = "modify"]
    /\ UNCHANGED <<storeVars, discVars, discoverVars, scrapeVars, op, pc, venues,
                   loaded, workset, idx, updatedCount, browser, launches, page, outcome>>

\* Lines 10-28.  statSync and loadVenues each succeed or throw; an exception
\* in the try, from either, ends in the catch, where loadVenues is called a
\* second time when the cache is empty.
getVenuesWithHotReload ==
    /\ call.last # "threw"
    /\ \E statOk \in BOOLEAN, readOk \in BOOLEAN, readAgainOk \in BOOLEAN :
         LET currentModified == call.mtimeMs
             cached == call.cachedVenues
             seen == [call EXCEPT !.stat = statOk]
         IN IF statOk /\ currentModified = call.lastModified /\ cached.rows # 0
            THEN call' = [seen EXCEPT !.last = "get", !.reload = "none",
                                      !.returned = <<cached>>]
            ELSE IF statOk /\ readOk
            THEN call' = [seen EXCEPT !.last = "get", !.reload = "done",
                                      !.cachedVenues = loadVenuesNow,
                                      !.lastModified = currentModified,
                                      !.returned = <<loadVenuesNow>>]
            ELSE LET attempt == IF statOk THEN "threw" ELSE "none" IN
                 IF cached.rows > 0
                 THEN call' = [seen EXCEPT !.last = "get", !.reload = attempt,
                                           !.returned = <<cached>>]
                 ELSE IF readAgainOk
                 THEN call' = [seen EXCEPT !.last = "get", !.reload = attempt,
                                           !.returned = <<loadVenuesNow>>]
                 ELSE call' = [seen EXCEPT !.last = "threw", !.reload = attempt,
                                           !.returned = <<>>]
    /\ UNCHANGED <<storeVars, discVars, discoverVars, scrapeVars, op, pc, venues,
                   loaded, workset, idx, updatedCount, browser, launches, page, outcome>>

\* Lines 31-43, development only: the listener of fs.watchFile.  curr.mtime
\* and prev.mtime are two Date objects, so !== holds on every invocation;
\* curr is the stat of the poll, which may be one modification behind the
\* file by the time the listener runs.  A loadVenues that throws here is an
\* uncaught exception of the listener and leaves both variables as they were.
watchFileListener ==
    /\ call.last # "threw"
    /\ \E curr \in {call.mtimeMs, call.mtimeMs - 1} :
         /\ curr >= 1
         /\ call' = [call EXCEPT !.last = "listener",
                                 !.cachedVenues = loadVenuesNow,
                                 !.lastModified = curr]
    /\ UNCHANGED <<storeVars, discVars, discoverVars, scrapeVars, op, pc, venues,
                   loaded, workset, idx, updatedCount, browser, launches, page, outcome>>

NextWatch == ModifyFile \/ getVenuesWithHotReload \/ watchFileListener

SpecWatch == InitWatch /\ [][NextWatch]_vars

-----------------------------------------------------------------------------
(* Properties *)

\* result key, record field
FieldPairs ==
    { <<"email", "contact_email">>, <<"phone", "contact_phone">>,
      <<"capacity", "capacity">>, <<"genres", "typical_genres">> }

TargetFields == { fp[2] : fp \in FieldPairs }

Enriching == op \in {"full", "quick"}

\* C1: in a full run and in a quick run, a target field that was non-empty
\* when the record was loaded keeps its value in memory at every later point
\* of the run and in every flush the run writes to the store.
C1_NeverOverwritesPopulated ==
    Enriching =>
      \A i \in 1..Len(loaded) : \A f \in TargetFields :
        Truthy(loaded[i][f]) =>
          /\ venues[i][f] = loaded[i][f]
          /\ (writes > 0 /\ i <= Len(disk) => disk[i][f] = loaded[i][f])

\* A record that had an email when loaded has been given another fact, and
\* the collection has been flushed.
C1_Witness ==
    /\ Enriching /\ writes > 0 /\ disk = stringify(venues)
    /\ \E i \in 1..Len(loaded) :
         Truthy(loaded[i].contact_email) /\ venues[i] # loaded[i]

\* C2: a full run that completes normally has saved whenever a venue was
\* updated, and every update applied in memory is in the on-disk store.
C2_CompletedRunIsPersisted ==
    (op = "full" /\ pc = "done" /\ outcome = "completed") =>
      /\ updatedCount > 0 => saveCalls > 0
      /\ disk = stringify(venues)

\* C3 as stated: a run with U > 0 updated venues performs exactly ceil(U/5)
\* saves, the run-end save being skipped when U is a multiple of 5.
C3_CeilSaves ==
    (op = "full" /\ pc = "done" /\ outcome = "completed" /\ updatedCount > 0) =>
      saveCalls = (updatedCount + 4) \div 5

\* C3 amended: the store is saved after every 5th update and once more at
\* run end whenever a venue was updated: floor(U/5) + 1 saves for U > 0,
\* none for U = 0.
C3_FloorPlusOneSaves ==
    /\ (op = "full" /\ pc \notin {"launch", "closing", "done"}) =>
         saveCalls = updatedCount \div 5
    /\ (op = "full" /\ pc \in {"closing", "done"} /\ outcome = "completed") =>
         saveCalls = IF updatedCount > 0 THEN (updatedCount \div 5) + 1 ELSE 0

\* A completed run with exactly five updates has saved twice.
C3_Witness ==
    /\ op = "full" /\ pc = "done" /\ outcome = "completed"
    /\ updatedCount = 5 /\ saveCalls = 2

\* C4: every overwrite of the main store by saveVenues comes right after the
\* then-current store was copied to the backup file: after the save the
\* backup holds the content the store had just before it, and the store is
\* not overwritten when the copy failed.
C4_BackupBeforeOverwrite ==
    [][writes' > writes => backup' = disk]_vars

\* The second overwrite of a run: the backup is the first flush, not the
\* store as loaded.
C4_Witness ==
    /\ op = "full" /\ writes = 2 /\ disk # <<>>
    /\ backup # <<>> /\ backup # loaded

\* C5: every overwrite of the discovered-venue store is preceded by writing
\* the store's prior content to a sibling backup file.
C5_DiscoveredStoreBackedUp ==
    [][discDisk' # discDisk => discBackup' = discDisk]_vars

\* C6: at most 3 iterations of the retry loop per venue; an iteration after
\* the first starts only when the previous one raised; when the third raises
\* the enricher returns null and the orchestrator moves on without touching
\* the record.
C6_ThreeAttempts ==
    /\ [](op = "full" =>
            /\ attempts <= 3
            /\ (pc = "apply" /\ attempts = 3 /\ threw => ret = <<>>))
    /\ [][op = "full" /\ attempts > 0 /\ attempts' > attempts => threw]_vars
    /\ [][op = "full" /\ pc = "apply" /\ attempts = 3 /\ threw
            /\ outcome' # "crashed" =>
            pc' = "delay" /\ venues' = venues /\ idx' = idx]_vars

\* Three attempts have raised on a venue that is not the last of the run.
C6_Witness ==
    /\ op = "full" /\ pc = "apply" /\ attempts = 3 /\ threw
    /\ ret = <<>> /\ idx < Len(workset)

\* C7: at most one page context is open at any time, and none is open when
\* the next iteration is about to open one, when the enricher has returned,
\* or between venues.
C7_PageReleased ==
    Enriching =>
      /\ page <= 1
      /\ (pc \notin {"goto", "links", "gotoContact", "catch", "finally"} => page = 0)

\* The enricher has returned facts from a contact page; no page is open.
C7_Witness ==
    /\ op = "full" /\ pc = "apply" /\ secFetches = 1 /\ ret # <<>> /\ page = 0

Scraping ==
    /\ Enriching
    /\ pc \in {"scrape", "newPage", "goto", "links", "gotoContact", "catch",
               "finally", "apply", "delay", "batchDelay", "finish"}

\* C8: a run launches at most one engine, every venue is processed with that
\* engine open, the engine is closed when the run has finished (normally or
\* through an exception) if the launch succeeded, and no page is open unless
\* the engine is.
C8_OneEngineAlwaysClosed ==
    /\ launches <= 1
    /\ (Scraping => browser = "open" /\ launches = 1)
    /\ (page > 0 => browser = "open")
    /\ (op # "idle" /\ pc = "done" /\ launches = 1 => browser = "closed")
    /\ (op = "discover" /\ pc = "save" /\ launches = 1 => browser = "closed")

\* The quick handler has ended in an error after a launch that succeeded.
C8_Witness ==
    /\ op = "quick" /\ pc = "done" /\ outcome = "error_500"
    /\ launches = 1 /\ browser = "closed"

StillMissing(v, p) ==
    \E fp \in FieldPairs : ~Truthy(v[fp[2]]) /\ ~Truthy(p[fp[1]])

\* C9: whenever a target field is still missing after the primary page was
\* extracted and that page has a contact-like link, the contact page is
\* fetched before the enricher returns.
C9_ContactPageWhenStillMissing ==
    (/\ op = "full" /\ pc = "apply" /\ ~threw /\ content # <<>>
     /\ content[1].links > 0 /\ StillMissing(current, prim))
    => secFetches >= 1

\* C10: at most one secondary page per venue; a fact of the primary page is
\* the value returned for its field; a value that is not from the primary
\* page is returned only for a field empty on the record, after a secondary
\* fetch.
C10_PrimaryWins ==
    op = "full" =>
      /\ secFetches <= 1
      /\ (pc = "apply" /\ ret # <<>>) =>
           \A fp \in FieldPairs :
             /\ Truthy(prim[fp[1]]) => ret[1][fp[1]] = prim[fp[1]]
             /\ (Truthy(ret[1][fp[1]]) /\ ~Truthy(prim[fp[1]])) =>
                  (~Truthy(current[fp[2]]) /\ secFetches = 1)

\* Facts of a contact page are returned for a record that has an email.
C10_Witness ==
    /\ op = "full" /\ pc = "apply" /\ ret # <<>> /\ secFetches = 1
    /\ Truthy(current.contact_email) /\ Truthy(ret[1].phone)

Skippable(v) == ~Truthy(v.website) \/ AllPopulated(v)

\* C11: for a venue without a website, or with all four target fields
\* populated, scrapeVenueInfo opens no page, fetches nothing and returns
\* null.
C11_SkipOpensNothing ==
    (/\ op \in EnricherOps
     /\ \/ pc \in {"newPage", "goto", "links", "gotoContact", "catch",
                   "finally", "apply"}
        \/ op = "enrich" /\ pc = "done"
     /\ Skippable(current))
    => /\ pc \in {"apply", "done"}
       /\ ret = <<>> /\ page = 0
       /\ attempts = 0 /\ secFetches = 0 /\ content = <<>>

\* The call has returned null for a record with all four fields populated.
C11_Witness ==
    /\ op = "enrich" /\ pc = "done" /\ outcome = "returned_null"
    /\ Truthy(current.website) /\ AllPopulated(current)
    /\ attempts = 0 /\ page = 0

InWorkset(i) == \E k \in 1..Len(workset) : workset[k] = i

C13_OneVenueAtATime ==
    /\ [](Enriching =>
            /\ page <= 1
            /\ \A k, l \in 1..Len(workset) : k < l => workset[k] < workset[l])
    /\ [][Enriching /\ op' = op /\ idx' # idx =>
            /\ idx' = idx + 1 /\ page = 0
            /\ pc \in {"launch", "delay", "batchDelay"}]_vars
    /\ [][Enriching /\ pc' = "delay" /\ pc # "delay" => pc = "apply"]_vars
    /\ [][Enriching /\ pc' = "batchDelay" => pc = "delay"]_vars
    /\ [][Enriching /\ page' > page => pc = "newPage" /\ page = 0]_vars

\* The page of the second venue is open; the first venue's result is on its
\* record.
C13_Witness ==
    /\ op = "full" /\ idx = 2 /\ page = 1
    /\ venues[workset[1]] # loaded[workset[1]]

\* The identity pairs of a collection are pairwise distinct.
UniquePairs(vs) ==
    \A i, j \in 1..Len(vs) :
      (HasIdentity(vs[i]) /\ HasIdentity(vs[j]) /\ Pair(vs[i]) = Pair(vs[j])) => i = j

PromotionStep == call = <<>> /\ call' # <<>> /\ call'.kind = "add-approved"

\* C15: promotion treats an approved venue as a duplicate only when a main
\* record has the same lowercased name and the same lowercased location;
\* otherwise the venue is in the main collection after the promotion.
C15_DuplicateByPair ==
    [][(/\ PromotionStep /\ call'.read /\ call'.readMain
        /\ outcome' \in {"promoted", "all_duplicates"})
       => \A i \in 1..Len(discDisk) :
            (/\ HasIdentity(discDisk[i]) /\ discDisk[i].status = "approved"
             /\ \A j \in 1..Len(disk) : Pair(disk[j]) # Pair(discDisk[i]))
            => \E j \in 1..Len(disk') : Pair(disk'[j]) = Pair(discDisk[i])]_vars

StatusStep == call = <<>> /\ call' # <<>> /\ call'.kind = "set-status"

Matching(vs, n, l) ==
    { i \in 1..Len(vs) :
        /\ toLowerCase(vs[i].name) = toLowerCase(n)
        /\ toLowerCase(vs[i].location) = toLowerCase(l) }

\* C16: set-status for a pair that matches no discovered record answers
\* not-found and leaves the store as it is; for a pair that matches, it sets
\* the status of the first matching record and succeeds, whatever the
\* status was, when the store could be written.
C16_SetStatusLastWriteWins ==
    [][(StatusStep /\ \A i \in 1..Len(discDisk) : HasIdentity(discDisk[i])) =>
         LET vs == IF call'.read THEN discDisk ELSE <<>>
             hits == Matching(vs, call'.name, call'.location)
         IN IF hits = {}
            THEN outcome' = "not_found" /\ discDisk' = discDisk
            ELSE call'.write = "ok" =>
                   /\ outcome' = "status_set"
                   /\ Len(discDisk') = Len(discDisk)
                   /\ \A i \in 1..Len(discDisk) :
                        discDisk'[i] =
                          IF i = CHOOSE k \in hits : \A m \in hits : k <= m
                          THEN [discDisk[i] EXCEPT !.status = call'.status]
                          ELSE discDisk[i]]_vars

\* A rejected record has been approved.
C16_Witness ==
    /\ call # <<>> /\ call.kind = "set-status" /\ outcome = "status_set"
    /\ call.was = "rejected" /\ call.status = "approved"
    /\ \E i \in 1..Len(discDisk) : discDisk[i].status = "approved"

\* C17: approved and rejected are terminal: no step changes the status of a
\* stored record that is approved or rejected.
C17_TerminalStatus ==
    [][\A i \in 1..Len(discDisk) :
         (/\ i <= Len(discDisk')
          /\ discDisk[i].status \in {"approved", "rejected"})
         => discDisk'[i].status = discDisk[i].status]_vars

\* C18: when the stored records lack the name or the location field, a
\* set-status lookup answers not-found, raises nothing and does not write
\* the store.
C18_MalformedIsNotFound ==
    [][(StatusStep /\ \E i \in 1..Len(discDisk) : ~HasIdentity(discDisk[i])) =>
         outcome' = "not_found" /\ discDisk' = discDisk]_vars

\* The lookup raised on a record without a location whose name matched.
C18_Witness ==
    /\ call # <<>> /\ call.kind = "set-status" /\ call.raised
    /\ outcome = "not_found"
    /\ \E i \in 1..Len(discDisk) : "location" \notin DOMAIN discDisk[i]

\* C19: when a save of the main store fails during a run, the run stops
\* with an error (it neither goes on nor reports success) and the in-memory
\* collection keeps every update applied so far.
C19_SaveFailureIsFatal ==
    [][(Enriching /\ saveCalls' > saveCalls /\ disk' # stringify(venues'))
       => /\ pc' \in {"closing", "done"}
          /\ outcome' \notin {"running", "completed", "ok_200"}
          /\ \A i \in 1..Len(venues) : venues[i] # loaded[i] => venues'[i] = venues[i]]_vars

\* C20: when the engine fails to launch, the run is aborted with the
\* failure as its outcome: no page is opened, no attempt is started, no
\* record is modified, and the store and its backup are as they were.
C20_LaunchFailureAborts ==
    (Enriching /\ launches = 0 /\ outcome \in {"launch_failed", "error_500"})
    => /\ pc \in {"closing", "done"}
       /\ browser = "none" /\ page = 0 /\ attempts = 0
       /\ venues = loaded /\ updatedCount = 0
       /\ disk = loaded /\ backup = <<>>
       /\ writes = 0 /\ saveCalls = 0

\* A full run with a non-empty working set has ended on a failed launch.
C20_Witness ==
    /\ op = "full" /\ pc = "done" /\ outcome = "launch_failed"
    /\ launches = 0 /\ workset # <<>>

\* C21: when the process crashes at any point of a run, every update that
\* a completed flush of the run has put in the on-disk store is still there.
C21_FlushedUpdatesSurvive ==
    [][(Enriching /\ writes > 0 /\ outcome' = "crashed") =>
         \A i \in 1..Len(disk) : \A f \in TargetFields :
           (i <= Len(loaded) /\ disk[i][f] # loaded[i][f])
           => (i <= Len(disk') /\ disk'[i][f] = disk[i][f])]_vars

\* C22: whenever a batch or discovery operation writes a store and goes on,
\* returns or fails, the store file holds the complete collection from before
\* the write or the complete new collection, never anything else.
C22_NeverHalfWritten ==
    [][(op \in {"full", "quick", "discover"} /\ outcome' # "crashed") =>
         /\ disk' \in {disk, stringify(venues')}
         /\ discDisk' \in {discDisk, discoveredVenues \o newVenues}]_vars

\* C23: every record a discovery call is about to return has status
\* pending, and an identity pair that differs from that of every record of
\* the discovered store as the call found it and from that of every other
\* record of the same call.
C23_DiscoveryResultIsNew ==
    (op \in DiscoverOps /\ pc \in {"search", "closing", "save"}) =>
      \A i \in 1..Len(newVenues) :
        /\ newVenues[i].status = "pending"
        /\ \A j \in 1..Len(discDisk) :
             HasIdentity(discDisk[j]) => Pair(discDisk[j]) # Pair(newVenues[i])
        /\ \A k \in 1..Len(newVenues) :
             Pair(newVenues[k]) = Pair(newVenues[i]) => k = i


\* C24: extractCapacity returns the largest integer of the text that stands
\* next to a capacity keyword, lies in 50..100000, is not in 2020..2030 and
\* is not a four-digit value above 3000, and null when there is none:
\* "capacity 2024" gives null, "capacity 450" gives 450 and
\* "occupancy 999999" gives null.
C24_CapacityAsStated ==
    (call.kind = "extracted" /\ call.fn = "extractCapacity") =>
      /\ call.result
           = (LET whole == <<"rep", <<"in", Chars(Alphabet.digit)>>, 1, -1>>
                 caps == reasonableCapacities(foundCapacities(call.text, whole))
             IN IF caps = {} THEN <<>> ELSE <<CHOOSE c \in caps : \A d \in caps : d <= c>>)
      /\ call.text = "capacity 2024" => call.result = <<>>
      /\ call.text = "capacity 450" => call.result = <<450>>
      /\ call.text = "occupancy 999999" => call.result = <<>>

\* C25: phone normalization is idempotent: extractPhone applied to a string
\* (XXX) XXX-XXXX that extractPhone produced returns that string again.
C25_PhoneIdempotent ==
    (call.kind = "again" /\ call.fn = "extractPhone") => call.result = <<call.text>>

\* C26: extractEmail prefers role addresses: when a surviving candidate starts
\* with booking@, info@, contact@, events@ or music@ the result is the first
\* such candidate in match order, otherwise it is the first candidate, and it
\* is null exactly when there is no candidate; "random@site.com or
\* booking@site.com" gives booking@site.com.
C26_RoleAddressFirst ==
    (call.kind = "extracted" /\ call.fn = "extractEmail") =>
      LET emails == foundEmails(call.text)
          isRole(e) == \E w \in {"booking@", "info@", "contact@", "events@", "music@"} :
                         Len(e) >= Len(w) /\ SubSeq(e, 1, Len(w)) = w
          roles == { k \in 1..Len(emails) : isRole(emails[k]) }
      IN /\ (call.result = <<>>) <=> (emails = <<>>)
         /\ roles # {} =>
              \E k \in roles : /\ call.result = <<emails[k]>>
                               /\ \A j \in roles : k <= j
         /\ (roles = {} /\ emails # <<>>) => call.result = <<emails[1]>>
         /\ call.text = "random@site.com or booking@site.com"
              => call.result = <<"booking@site.com">>

\* A role address is preferred to a candidate found before it.
C26_Witness ==
    /\ call.kind = "extracted" /\ call.fn = "extractEmail"
    /\ call.text = "random@site.com or booking@site.com"
    /\ foundEmails(call.text) = <<"random@site.com", "booking@site.com">>
    /\ call.result = <<"booking@site.com">>

\* C27: a non-null result of extractGenres is a "; "-joined list of at most 8
\* pairwise distinct title-cased vocabulary terms in ascending alphabetical
\* order: the first 8 of the genres found, so that a text naming 10 distinct
\* vocabulary genres gives exactly 8 entries.
C27_GenresSortedAndCapped ==
    (call.kind = "extracted" /\ call.fn = "extractGenres" /\ call.result # <<>>) =>
      LET RECURSIVE split(_, _)
          \* the entries of a "; "-joined list; cur is the entry being read
          split(rest, cur) ==
            IF rest = "" THEN <<cur>>
            ELSE IF Len(rest) >= 2 /\ SubSeq(rest, 1, 2) = "; "
                 THEN <<cur>> \o split(SubSeq(rest, 3, Len(rest)), "")
                 ELSE split(SubSeq(rest, 2, Len(rest)), cur \o SubSeq(rest, 1, 1))
          rank(c) == CHOOSE k \in 1..Len(Alphabet.units) : SubSeq(Alphabet.units, k, k) = c
          RECURSIVE less(_, _)
          less(a, b) ==
            IF a = "" \/ b = "" THEN a = "" /\ b # ""
            ELSE IF SubSeq(a, 1, 1) = SubSeq(b, 1, 1)
                 THEN less(SubSeq(a, 2, Len(a)), SubSeq(b, 2, Len(b)))
                 ELSE rank(SubSeq(a, 1, 1)) < rank(SubSeq(b, 1, 1))
          entries == split(call.result[1], "")
          found == foundGenres(call.text)
          named == { found[k] : k \in 1..Len(found) }
          listed == { entries[k] : k \in 1..Len(entries) }
      IN /\ Len(entries) <= 8
         /\ \A k \in 1..Len(entries) :
              \E n \in 1..Len(genreKeywords) : entries[k] = formatGenre(genreKeywords[n])
         /\ \A k \in 1..(Len(entries) - 1) : less(entries[k], entries[k + 1])
         /\ listed \subseteq named
         /\ \A g \in named \ listed : \A e \in listed : less(e, g)
         /\ Cardinality(named) >= 8 => Len(entries) = 8
         /\ call.text = "rock, pop, jazz, blues, country, folk, indie, metal, punk, funk"
              => /\ Cardinality(named) = 10
                 /\ call.result = <<"Blues; Country; Folk; Funk; Indie; Jazz; Metal; Pop">>

\* Ten genres are named and eight are listed.
C27_Witness ==
    /\ call.kind = "extracted" /\ call.fn = "extractGenres"
    /\ call.text = "rock, pop, jazz, blues, country, folk, indie, metal, punk, funk"
    /\ Len(foundGenres(call.text)) = 10
    /\ call.result = <<"Blues; Country; Folk; Funk; Indie; Jazz; Metal; Pop">>

\* C28: end to end, from a store of one record that has a website and no
\* target field, and a primary page that yields an email, a phone, a capacity
\* and genres, a run that completes leaves that record on disk with exactly
\* the four extracted values, and the backup file holds the store as it was
\* before the run.  The four values are those of the primary page alone, so
\* the record in memory holds them only when that page yielded them.
C28_EndToEnd ==
    LET blank == Venue(VenueName(1), Site, "", "", "", "")
        facts == Facts("booking@venue.test", "(919) 555-0134", "num:300", "Blues; Jazz")
        enriched == [name |-> VenueName(1), location |-> "Raleigh", website |-> Site,
                     contact_email |-> "booking@venue.test",
                     contact_phone |-> "(919) 555-0134",
                     capacity |-> "300", typical_genres |-> "Blues; Jazz"]
    IN (/\ op = "full" /\ pc = "done" /\ outcome = "completed"
        /\ loaded = <<blank>> /\ venues = <<ApplyResult(blank, facts)>>)
         => (disk = <<enriched>> /\ backup = <<blank>>)

\* C29: the "enrich now" operation returns the statistics of the run it made:
\* processed is the number of venues attempted, updated the number of venues
\* that had a field filled (so updated <= processed), and the remaining gap
\* the number of records that still have a website and a missing target
\* field when the run ends.
C29_StatisticsOfTheRun ==
    (op = "quick" /\ pc = "done" /\ outcome = "ok_200") =>
      /\ QuickResponse.venuesProcessed = Len(workset) /\ idx = Len(workset)
      /\ QuickResponse.venuesUpdated
           = Cardinality({ i \in 1..Len(venues) : venues[i] # loaded[i] })
      /\ QuickResponse.venuesUpdated <= QuickResponse.venuesProcessed
      /\ QuickResponse.totalVenuesNeedingWork
           = Cardinality({ i \in 1..Len(venues) :
                             Truthy(venues[i].website) /\ ~AllPopulated(venues[i]) })

\* C30: the quick handler attempts at most 10 venues per invocation, the
\* first 10 records of the store that have a website and lack the email or the
\* phone; nothing but this cap ends the loop early, and the handler never
\* abandons a page it has open: it goes to the save and the close of the
\* engine only after the last venue of the working set, with no page open.
C30_CappedNeverCancelled ==
    [][LET eligible == { i \in 1..Len(loaded') :
                           Truthy(loaded'[i].website)
                           /\ (~Truthy(loaded'[i].contact_email)
                                 \/ ~Truthy(loaded'[i].contact_phone)) }
           members == { workset'[k] : k \in 1..Len(workset') }
       IN /\ op' = "quick" =>
               /\ Len(workset') <= 10 /\ idx' <= Len(workset')
               /\ \A k \in 1..(Len(workset') - 1) : workset'[k] < workset'[k + 1]
               /\ members \subseteq eligible
               /\ \A i \in eligible \ members :
                    Len(workset') = 10 /\ \A m \in members : m < i
               /\ page' > 0 => (browser' = "open" /\ pc' \in {"goto", "finally"})
          /\ (op = "quick" /\ outcome' # "crashed") =>
               /\ (page > 0 /\ page' = 0) => pc = "finally"
               /\ (pc # "finish" /\ pc' = "finish") => (idx = Len(workset) /\ page = 0)
               /\ (browser = "open" /\ browser' # "open") =>
                    (pc = "closing" /\ idx = Len(workset) /\ page = 0)]_vars

\* Eleven records need contact info; the handler has attempted ten and answers.
C30_Witness ==
    /\ op = "quick" /\ pc = "done" /\ outcome = "ok_200"
    /\ Cardinality({ i \in 1..Len(loaded) : QuickNeedsInfo(loaded[i]) }) = 11
    /\ workset = <<1, 2, 3, 4, 5, 6, 7, 8, 9, 10>> /\ idx = 10
    /\ venues[1] # loaded[1]

-----------------------------------------------------------------------------
(* Claims on the enricher's result, classification, caps and the stores *)

\* C31: scrapeVenueInfo never modifies the venue record it is given; its
\* result holds a non-null value only for a field that was empty on the record
\* when it was called, and it is null unless a new fact was found on one of
\* the two pages.
C31_EnricherIsPure ==
    [][ LET EnricherPcs == {"scrape", "newPage", "goto", "links", "gotoContact",
                            "catch", "finally"} IN
        /\ (op \in EnricherOps /\ pc \in EnricherPcs /\ outcome' # "crashed")
             => venues' = venues
        /\ (op' \in EnricherOps /\ pc' = "apply" /\ pc \in EnricherPcs
              /\ ret' # <<>>) =>
             /\ AnyFact(ret'[1])
             /\ \A fp \in FieldPairs :
                  Truthy(ret'[1][fp[1]]) => ~Truthy(current[fp[2]])
        /\ (op' \in EnricherOps /\ pc' = "apply" /\ pc \in EnricherPcs
              /\ ~AnyFact(prim') /\ secFetches' = 0) => ret' = <<>> ]_vars

\* A record that already has an email is enriched through the harness: the
\* result carries a phone and no email, and the record is as it was given.
C31_Witness ==
    /\ op = "enrich" /\ pc = "done" /\ outcome = "returned_facts"
    /\ venues = loaded /\ Truthy(loaded[1].contact_email)
    /\ ret # <<>> /\ ~Truthy(ret[1].email) /\ Truthy(ret[1].phone)

\* C32: the venue type of a discovered result is the category of the first
\* rule, in the order theater/theatre, club with jazz, club with blues, bar or
\* pub, coffee or cafe, brewery, outdoor or amphitheater, hall or center,
\* whose keywords are present in the lowercased name and snippet, and
\* "Music Venue" when no rule has its keywords present.
C32_FirstMatchWins ==
    (call # <<>> /\ call.kind = "extracted"
       /\ call.fn \in {"venueType", "extractVenueInfo"}) =>
      LET rules == << <<"Theater", {{"theater"}, {"theatre"}}>>,
                      <<"Jazz Club", {{"club", "jazz"}}>>,
                      <<"Blues Club", {{"club", "blues"}}>>,
                      <<"Bar/Restaurant", {{"bar"}, {"pub"}}>>,
                      <<"Coffee Shop", {{"coffee"}, {"cafe"}}>>,
                      <<"Brewery", {{"brewery"}}>>,
                      <<"Outdoor Venue", {{"outdoor"}, {"amphitheater"}}>>,
                      <<"Concert Hall", {{"hall"}, {"center"}}>> >>
          lowered == MapChars(call.name \o " " \o call.text,
                              Alphabet.upper, Alphabet.lower)
          present(k) == \E ws \in rules[k][2] : \A w \in ws : Includes(lowered, w)
          matching == { k \in 1..Len(rules) : present(k) }
      IN IF matching = {} THEN call.result = "Music Venue"
         ELSE call.result = rules[CHOOSE k \in matching : \A j \in matching : k <= j][1]

\* A result named "Jazz Club" whose snippet speaks of a bar and a hall has the
\* keywords of three rules and is classified by the first of them.
C32_Witness ==
    call = [kind |-> "extracted", fn |-> "venueType", name |-> "Jazz Club",
            text |-> "Bar and Hall", result |-> "Jazz Club"]

\* C33: no address returned by extractEmail contains "noreply" or "example".
C33_NoNoreplyNoExample ==
    (call # <<>> /\ call.kind = "extracted" /\ call.fn = "extractEmail"
       /\ call.result # <<>>) =>
      /\ ~Includes(call.result[1], "noreply")
      /\ ~Includes(call.result[1], "example")

\* C34: discoverVenuesInCity collects, and so returns, at most maxResults
\* records, and once maxResults records are collected no further search query
\* is issued and nothing more is collected.
C34_CapStopsTheSearch ==
    [][ /\ op' \in DiscoverOps => Len(newVenues') <= maxResults'
        /\ (op \in DiscoverOps /\ op' = op /\ Len(newVenues) >= maxResults) =>
             term' = term /\ newVenues' = newVenues ]_vars

\* The first query fills the cap of two; the loop is left with the second
\* search term still to come, and the two records are what the call returns.
C34_Witness ==
    /\ op \in DiscoverOps /\ pc = "closing" /\ outcome = "running"
    /\ maxResults = 2 /\ Len(newVenues) = 2 /\ term = 2 /\ term <= NumTerms

\* C35: what another writer of the main store saved while a run is in progress
\* is still in the store after the run's next flush: every record the store
\* held just before the flush is there after it, with every target field it
\* had filled.
C35_FlushKeepsOtherWriters ==
    [][ (op = "full" /\ op' = "full" /\ saveCalls' = saveCalls + 1
           /\ disk' = stringify(venues)) =>
          \A i \in 1..Len(disk) : \E j \in 1..Len(disk') :
            /\ disk'[j].name = disk[i].name
            /\ \A f \in TargetFields :
                 Truthy(disk[i][f]) => disk'[j][f] = disk[i][f] ]_vars

\* C36: a full or quick run in which no venue is updated, from its load to
\* its end however it ends, performs no write to the main store and leaves
\* the backup file as it was.
C36_NoUpdateNoWrite ==
    [][ (Enriching /\ updatedCount = 0 /\ updatedCount' = 0) =>
          /\ disk' = disk /\ backup' = backup
          /\ (op' = op => saveCalls' = 0 /\ writes' = 0) ]_vars

\* A full run attempted its venues, none gave a new fact, and it has passed
\* the save at the end of the loop without calling it.
C36_Witness ==
    /\ op = "full" /\ pc = "closing" /\ outcome = "completed"
    /\ workset # <<>> /\ idx > 0 /\ updatedCount = 0
    /\ saveCalls = 0 /\ disk = loaded /\ backup = <<>>

\* C37: promotion of approved venues only appends to the main store: every
\* record that was in it before is in it afterwards with unchanged values,
\* the discovered store is not modified, and a promotion repeated after a
\* successful one would find nothing to add.
C37_PromotionOnlyAppends ==
    [][ PromotionStep =>
          /\ Len(disk') >= Len(disk)
          /\ \A i \in 1..Len(disk) : disk'[i] = disk[i]
          /\ discDisk' = discDisk
          /\ outcome' = "promoted" =>
               uniqueNewVenues(getApprovedVenues(TRUE), disk') = <<>> ]_vars

\* C38: every record of the discovered store has one of the statuses pending,
\* approved, rejected, whatever discovery runs and set-status requests there
\* were; and a set-status request that is not a POST, lacks name, location or
\* status, or carries another status is answered 405 or 400 and leaves the
\* discovered store unchanged.
C38_StatusesAndRefusals ==
    [][ /\ \A i \in 1..Len(discDisk') : discDisk'[i].status \in Statuses
        /\ (call = <<>> /\ call' # <<>> /\ call'.kind \in {"set-status", "refused"}
              /\ \/ call'.kind = "refused" /\ call'.method # "POST"
                 \/ call'.name = "" \/ call'.location = ""
                 \/ call'.status \notin {"approved", "rejected"}) =>
             /\ outcome' \in {"refused_405", "refused_400"}
             /\ discDisk' = discDisk ]_vars

\* C39: a call of getVenuesWithHotReload that can examine the file reloads it
\* exactly when its modification time differs from lastModified or the cache
\* is empty, and otherwise returns the cache; a call that returns without
\* error, the file having been examined, never returns a collection loaded
\* before the file's last modification; and when the file cannot be examined
\* a non-empty cache is returned unchanged.
C39_HotReloadNeverStale ==
    [][ (call'.last = "get") =>
          /\ call'.stat =>
               (call'.reload # "none"
                  <=> (call.mtimeMs # call.lastModified \/ call.cachedVenues.rows = 0))
          /\ (call'.stat /\ call'.reload = "none") =>
               call'.returned = <<call.cachedVenues>>
          /\ call'.stat => call'.returned[1].of = call'.version
          /\ (~call'.stat /\ call.cachedVenues.rows > 0) =>
               /\ call'.returned = <<call.cachedVenues>>
               /\ call'.cachedVenues = call.cachedVenues ]_vars

\* C40: every full run terminates: it reaches its end with the engine closed;
\* a run whose engine launched attempts the venues of its working set one
\* after the other, each exactly once, whatever the attempts on the venues
\* before gave, with at most maxRetries + 1 loads of the primary page and one
\* of a secondary page per venue, and leaves the loop only after the last.
C40_EveryRunTerminates ==
    /\ (op = "full") ~> (op = "full" /\ pc = "done" /\ browser # "open" /\ page = 0)
    /\ [][ (op = "full" /\ op' = "full") =>
             /\ workset' = workset
             /\ attempts' <= maxRetries + 1 /\ secFetches' <= 1
             /\ idx' # idx => idx' = idx + 1 /\ pc' = "scrape"
             /\ (pc' = "scrape" /\ pc # "scrape") => idx' = idx + 1
             /\ (pc' = "finish" /\ pc # "finish") => idx' = Len(workset) ]_vars

\* A run over two venues has ended with the engine closed: the first venue
\* gave nothing, the second was attempted after it and updated.
C40_Witness ==
    /\ op = "full" /\ pc = "done" /\ browser = "closed" /\ outcome = "completed"
    /\ Len(workset) = 2 /\ idx = 2
    /\ venues[1] = loaded[1] /\ venues[2] # loaded[2]

=============================================================================
